---- MODULE Spec2Model ----
(***************************************************************************)
(* ESP32 vibration monitor: trigger controller, measurement cycle          *)
(* (sampling, processing, upload) and status reporting, modelled from      *)
(* src/src/main.cpp and its collaborators.                                 *)
(*                                                                         *)
(* Floating-point samples are modelled as integers.  `clock' is the real   *)
(* time in milliseconds since boot and millis() its truncation to the      *)
(* counter width.  TLC computes with 32-bit signed integers, so the        *)
(* 32-bit millisecond counter wraps at 2^30 here, and a 64-bit nanosecond  *)
(* timestamp is kept exactly as the pair [s, n] of whole seconds and       *)
(* nanoseconds within the second (value s * 10^9 + n).                     *)
(***************************************************************************)
EXTENDS Integers, Sequences, FiniteSets, TLC

(***************************************************************************)
(* Bounds of the model                                                     *)
(***************************************************************************)
MaxTicks == 2        \* clock advances explored by Spec
MaxCycles == 2       \* measurement cycles explored by Spec
MaxSamples == 2      \* largest sample_count explored
MaxRuns == 4         \* measurement cycles explored by SpecUp
MaxAcq == 1          \* measurement cycles explored by SpecAcq
MaxPosts == 1        \* configuration updates explored by SpecCfg
MaxBatches == 2      \* full batches of the largest write explored by SpecWrite
MaxCalls == 3        \* calls of the DSP interface explored by SpecFilt
MaxLen == 2          \* longest data sequence filtered by SpecFilt
MaxFftInput == 130   \* longest input of computeFFT explored by SpecFft
MaxLinks == 2        \* starts of connecting (connectStation, connection loss) in SpecWifi

(***************************************************************************)
(* Program constants                                                       *)
(***************************************************************************)
DebounceMs == 100
MinValidEpochSec == 1700000000
NsPerSec == 1000000000
NsPerUsec == 1000
CounterMod == 1073741824
BootMillis == 1000

VARIABLES
    clock,                  \* real time since boot, ms (unbounded)
    ticks,                  \* number of clock advances taken (bounded)
    triggerPending,         \* main.cpp:36
    lastTriggerTime,        \* main.cpp:37
    pc,                     \* position of loop(): idle, sampling, sample_loop, processing, uploading, crashed
    idx,                    \* loop index i of performSampling
    wifiSleep,              \* modem power-save setting set through WiFi.setSleep
    currentSampleCount,     \* main.cpp:49
    nullBufs,               \* names of the buffer pointers that are nullptr
    bufferX, bufferY, bufferZ,
    runSequence,            \* main.cpp:53
    lastUploadTimestampNs,  \* main.cpp:54
    wsLastTriggerTime,      \* WebServer::_lastTriggerTime
    wsLastSampleCount,      \* WebServer::_lastSampleCount
    wsLastInfluxOk,         \* WebServer::_lastInfluxOk
    wsTriggerCount,         \* WebServer::_triggerCount
    cfg,                    \* ConfigManager::_config (the fields the cycle reads)
    dsp,                    \* DSP::_numSections, _sos, _state
    freqBins, fftX, fftY, fftZ,
    nvs,                    \* the configuration blob stored in NVS by ConfigManager::save
    webTask,                \* position of the web server task in _handlePostConfig
    influx,                 \* InfluxDBClient: position and locals of the running write
    wifi,                   \* WiFiManager: _state, _connectAttempts, time since _connectStartTime
    acq,                    \* the timing of performSampling: microsecond clock and deadline
    calc,                   \* the last call of a stateless helper: name, arguments, result
    hist                    \* history (observation) record, not program state

vars == <<clock, ticks, triggerPending, lastTriggerTime, pc, idx, wifiSleep,
          currentSampleCount, nullBufs, bufferX, bufferY, bufferZ,
          runSequence, lastUploadTimestampNs,
          wsLastTriggerTime, wsLastSampleCount, wsLastInfluxOk, wsTriggerCount,
          cfg, dsp, freqBins, fftX, fftY, fftZ, nvs, webTask, influx, wifi, acq, calc, hist>>

trigVars == <<triggerPending, lastTriggerTime>>
bufVars == <<currentSampleCount, nullBufs, bufferX, bufferY, bufferZ>>
fftVars == <<freqBins, fftX, fftY, fftZ>>
runVars == <<runSequence, lastUploadTimestampNs>>
wsVars == <<wsLastTriggerTime, wsLastSampleCount, wsLastInfluxOk, wsTriggerCount>>
taskVars == <<nvs, webTask, influx, wifi, acq, calc>>

(***************************************************************************)
(* Clocks                                                                  *)
(***************************************************************************)
\* millis(): 32-bit millisecond counter
millis == clock % CounterMod

\* uint32_t subtraction
Sub32(a, b) == (a - b + CounterMod) % CounterMod

\* 64-bit nanosecond timestamps as [s, n]
Ts(sec, nsec) == [s |-> sec, n |-> nsec]
TsZero == Ts(0, 0)
TsLess(a, b) == a.s < b.s \/ (a.s = b.s /\ a.n < b.n)
TsLeq(a, b) == a = b \/ TsLess(a, b)
\* a + k nanoseconds, for 0 <= k < 10^9
TsAdd(a, k) ==
    IF a.n + k >= NsPerSec THEN Ts(a.s + 1, a.n + k - NsPerSec) ELSE Ts(a.s, a.n + k)

Busy == pc \in {"sampling", "sample_loop", "processing", "uploading"}

(***************************************************************************)
(* Buffers (main.cpp:41-49, 102-137).  A buffer is a sequence; element i   *)
(* of the C array is element i+1 of the sequence.  nullBufs holds the      *)
(* names of the pointers that are nullptr.                                 *)
(***************************************************************************)
BufNames == {"bufferX", "bufferY", "bufferZ", "freqBins", "fftX", "fftY", "fftZ"}

\* content of freshly malloc'ed time-domain memory (indeterminate, never zero here)
Garbage == 9

\* content of a frequency-domain slot that was never written
UninitBin == [kind |-> "uninit", src |-> <<>>, bin |-> 0, windowed |-> FALSE, halved |-> 0]

RECURSIVE Pow2From(_, _)
Pow2From(p, n) == IF p < n THEN Pow2From(2 * p, n) ELSE p

\* variant: the loop runs while p <= n
nextPowerOf2_Strict(n) == Pow2From(1, n + 1)

\* DSP::nextPowerOf2
nextPowerOf2(n) == Pow2From(1, n)

Fill(n, v) == [i \in 1..n |-> v]

\* allocateBuffers(sampleCount), where `failed' is the set of mallocs that return nullptr;
\* the result is the new value of the buffer state, oldCount is currentSampleCount before the call
allocateBuffers(sampleCount, failed, oldCount) ==
    LET fftSize == nextPowerOf2(sampleCount)
        numBins == (fftSize \div 2) + 1
        T(name) == IF name \in failed THEN <<>> ELSE Fill(sampleCount, Garbage)
        F(name) == IF name \in failed THEN <<>> ELSE Fill(numBins, UninitBin)
    IN [ok |-> failed = {},
        nullBufs |-> failed,
        bufferX |-> T("bufferX"), bufferY |-> T("bufferY"), bufferZ |-> T("bufferZ"),
        freqBins |-> F("freqBins"), fftX |-> F("fftX"), fftY |-> F("fftY"), fftZ |-> F("fftZ"),
        currentSampleCount |-> IF failed = {} THEN sampleCount ELSE oldCount]

(***************************************************************************)
(* Configuration (config.h DeviceConfig, getDefaultConfig): the fields     *)
(* the measurement cycle reads.                                            *)
(***************************************************************************)
DEFAULT_SAMPLE_COUNT == 4096
DEFAULT_SAMPLE_RATE_HZ == 3200
DEFAULT_FILTER_CUTOFF_HZ == 1600
ADXL313_RANGE_2G == 2
MAX_SENSITIVITY == 3

\* getDefaultConfig, with sample_count, the token and send_time_domain as stored by the user
ConfigOf(count, token, sendTime) ==
    [influx_url |-> "http://192.168.1.100:8086",
     influx_token |-> token,
     sensitivity |-> ADXL313_RANGE_2G,
     sample_count |-> count,
     sample_rate_hz |-> DEFAULT_SAMPLE_RATE_HZ,
     filter_cutoff_hz |-> DEFAULT_FILTER_CUTOFF_HZ,
     send_time_domain |-> sendTime]

\* getDefaultConfig (config.h:105-138)
getDefaultConfig == ConfigOf(DEFAULT_SAMPLE_COUNT, "", FALSE)

\* ConfigManager::load: the stored blob if it has the right size and magic, the
\* defaults otherwise (config_manager.cpp:18-43)
load(stored) == IF stored.valid THEN stored.config ELSE getDefaultConfig

\* ConfigManager::isInfluxConfigured
isInfluxConfigured == cfg.influx_url # "" /\ cfg.influx_token # ""

(***************************************************************************)
(* History record: what an observer of the run has seen so far.            *)
(***************************************************************************)
HistInit ==
    [hwAcceptedAt |-> -1,      \* real time of the last accepted hardware edge
     hwEdge |-> [seen |-> FALSE, outside |-> FALSE, accepted |-> FALSE],
                               \* the newest hardware edge: whether it came more than
                               \* 100 ms after the accepted hardware edge before it (or
                               \* was the first), and whether it was accepted
     hwGapOk |-> TRUE,         \* all accepted hardware edges so far were > 100 ms apart
     hwStage |-> 0,            \* 1: an edge accepted, 2: then one rejected inside the
                               \* window, 3: then another one accepted
     idleTrig |-> FALSE,       \* a trigger was accepted while Idle since the last consume
     busyStart |-> FALSE,      \* a cycle was started by triggers accepted only while not Idle
     multi |-> FALSE,          \* the newest batch of pending triggers holds two or more
     cyclesStarted |-> 0,
     cyclesEnded |-> 0,
     consumedTs |-> 0,         \* lastTriggerTime when the running cycle's trigger was consumed
     reports |-> 0,            \* updateStatus calls of the current cycle
     access |-> {},            \* <<buffer, index>> read or written by the last phase step
     reads |-> <<>>,           \* outcomes of the sensor reads of the current acquisition
     sleepAtEntry |-> TRUE,    \* power-save setting when the current acquisition was entered
     configPosts |-> 0,        \* configuration updates handled
     rates |-> <<>>,           \* cfg.sample_rate_hz as each phase of the cycle read it
     cutoffs |-> <<>>,         \* cfg.filter_cutoff_hz as each phase of the cycle read it
     dspCalls |-> 0,           \* calls of the DSP interface made by SpecFilt
     order |-> 0,              \* order passed to the last designButterworth of SpecSect
     writes |-> <<>>,          \* writes attempted by the last upload, with their results
     upNet |-> <<>>,           \* what WiFi and the clock did during the last upload
     candidates |-> <<>>,      \* epoch readings taken by the runs, in ns
     issued |-> <<>>,          \* base timestamps issued to the runs
     seqs |-> <<>>,            \* runSequence of the runs
     runIds |-> <<>>]          \* runId of the runs

(***************************************************************************)
(* InfluxDBClient before any write (influxdb_client.cpp).  A point is      *)
(* named by its loop index i; batch is the String of points being built,   *)
(* delivered the points the server has accepted, in order.                 *)
(***************************************************************************)
InfluxIdle ==
    [pc |-> "idle",            \* idle, loop, send, send_done, returned
     fn |-> "none",            \* freq: writeFrequencyData, time: writeTimeData
     configured |-> TRUE,      \* isConfigured()
     n |-> 0,                  \* numBins or numSamples
     base |-> TsZero,          \* baseTimestampNs
     stamps |-> <<>>,          \* timestamps of the points appended so far, in order
     line |-> <<>>,            \* the line writePoint built, as its space-separated tokens
     i |-> 0,                  \* loop index
     batch |-> <<>>,           \* points appended to the batch (batchCount = Len)
     ret |-> "loop",           \* call site of the running send: loop or tail
     attempt |-> 0,            \* attempt of _sendLineProtocol
     posts |-> <<>>,           \* HTTP codes of the POSTs of the running send
     delays |-> <<>>,          \* backoff delays of the running send, ms
     sendOk |-> FALSE,         \* return value of the send
     result |-> FALSE,         \* return value of the write
     sends |-> 0,              \* calls of _sendLineProtocol made by the write
     delivered |-> <<>>,       \* points accepted by the server
     batches |-> <<>>]         \* sizes of the accepted batches

(***************************************************************************)
(* State after setup() (main.cpp:352-414): configuration loaded, buffers   *)
(* allocated (or not), interrupt attached.  setup() starts with            *)
(* delay(1000), so millis() is at least 1000 when the first edge can       *)
(* arrive.                                                                 *)
(***************************************************************************)
\* WiFiManager before begin(); elapsed is millis() - _connectStartTime, timeouts the
\* connection attempts that timed out since connecting was last started, links the
\* number of times connecting was started
WifiIdle ==
    [state |-> "DISCONNECTED", connectAttempts |-> 0, elapsed |-> 0,
     timeouts |-> 0, links |-> 0]

\* the timing of performSampling before a cycle: now is the real time in microseconds,
\* counted from an instant at which the counter wraps (negative before it),
\* t0 the real time of the first deadline, nextSampleTime the 32-bit variable,
\* readAt the real times at which the samples were read
AcqIdle ==
    [pc |-> "idle", now |-> 0, t0 |-> 0, interval |-> 0, nextSampleTime |-> 0,
     count |-> 0, i |-> 0, readAt |-> <<>>]

\* no helper called yet
CalcIdle == [fn |-> "none", in |-> <<>>, out |-> <<>>]

InitWith(clocks, cfgs, failSets) ==
    /\ clock \in clocks
    /\ ticks = 0
    /\ triggerPending = FALSE
    /\ lastTriggerTime = 0
    /\ pc = "idle"
    /\ idx = 0
    /\ wifiSleep = TRUE        \* modem sleep is the WiFi library's default
    /\ cfg \in cfgs
    /\ nvs = [valid |-> TRUE, config |-> cfg]
    /\ \E failed \in failSets :
         LET a == allocateBuffers(cfg.sample_count, failed, 0)
         IN /\ nullBufs = a.nullBufs
            /\ bufferX = a.bufferX /\ bufferY = a.bufferY /\ bufferZ = a.bufferZ
            /\ freqBins = a.freqBins /\ fftX = a.fftX /\ fftY = a.fftY /\ fftZ = a.fftZ
            /\ currentSampleCount = a.currentSampleCount
    /\ runSequence = 0
    /\ lastUploadTimestampNs = TsZero
    /\ wsLastTriggerTime = 0
    /\ wsLastSampleCount = 0
    /\ wsLastInfluxOk = TRUE
    /\ wsTriggerCount = 0
    /\ dsp = [numSections |-> 0,
              sos |-> <<<<0, 0, 0, 0, 0>>, <<0, 0, 0, 0, 0>>>>,
              state |-> <<<<0, 0>>, <<0, 0>>>>]
    /\ webTask = "idle"
    /\ influx = InfluxIdle
    /\ wifi = WifiIdle
    /\ acq = AcqIdle
    /\ calc = CalcIdle
    /\ hist = HistInit

(***************************************************************************)
(* Trigger controller                                                      *)
(***************************************************************************)
\* variant: the window's end counts as outside the window
DebouncePassed_Inclusive(now, last) == Sub32(now, last) >= DebounceMs

\* the debounce test of plcTriggerISR (main.cpp:91)
DebouncePassed(now, last) == Sub32(now, last) > DebounceMs

\* the present instant is more than 100 ms of real time after the last accepted
\* hardware edge, or no hardware edge was accepted yet
OutsideWindow == hist.hwAcceptedAt = -1 \/ clock - hist.hwAcceptedAt > DebounceMs

\* plcTriggerISR (main.cpp:86-97): a rising edge on the PLC input
plcTriggerISR ==
    LET now == millis IN
    /\ pc # "crashed"
    /\ IF DebouncePassed(now, lastTriggerTime)
       THEN /\ triggerPending' = TRUE
            /\ lastTriggerTime' = now
            /\ hist' = [hist EXCEPT
                          !.hwGapOk = @ /\ (hist.hwAcceptedAt = -1
                                            \/ clock - hist.hwAcceptedAt > DebounceMs),
                          !.hwAcceptedAt = clock,
                          !.hwEdge = [seen |-> TRUE, outside |-> OutsideWindow,
                                      accepted |-> TRUE],
                          !.hwStage = IF @ = 0 THEN 1 ELSE IF @ = 2 THEN 3 ELSE @,
                          !.idleTrig = @ \/ ~Busy,
                          !.multi = triggerPending]
       ELSE /\ UNCHANGED <<triggerPending, lastTriggerTime>>
            /\ hist' = [hist EXCEPT !.hwEdge = [seen |-> TRUE, outside |-> OutsideWindow,
                                                accepted |-> FALSE],
                                    !.hwStage =
                                       IF @ = 1 /\ clock - hist.hwAcceptedAt <= DebounceMs
                                       THEN 2 ELSE @]
    /\ UNCHANGED <<taskVars, clock, ticks, pc, idx, wifiSleep, bufVars, fftVars, runVars,
                   wsVars, cfg, dsp>>

\* manualTriggerCallback (main.cpp:340-347): POST /api/trigger
manualTriggerCallback ==
    /\ pc # "crashed"
    /\ triggerPending' = TRUE
    /\ lastTriggerTime' = millis
    /\ hist' = [hist EXCEPT !.idleTrig = @ \/ ~Busy,
                            !.multi = triggerPending]
    /\ UNCHANGED <<taskVars, clock, ticks, pc, idx, wifiSleep, bufVars, fftVars, runVars,
                   wsVars, cfg, dsp>>

(***************************************************************************)
(* loop() (main.cpp:419-443): the poll of the pending flag.  With the flag *)
(* set the cycle starts; without it loop() only delays and returns.        *)
(***************************************************************************)
\* variant: the poll also runs while a cycle is uploading
LoopPoll_Reentrant(maxCycles) ==
    /\ pc \in {"idle", "uploading"}
    /\ IF triggerPending
       THEN /\ hist.cyclesStarted < maxCycles
            /\ triggerPending' = FALSE
            /\ pc' = "sampling"
            /\ hist' = [hist EXCEPT !.cyclesStarted = @ + 1,
                                    !.busyStart = @ \/ ~hist.idleTrig,
                                    !.idleTrig = FALSE,
                                    !.consumedTs = lastTriggerTime,
                                    !.reports = 0]
       ELSE UNCHANGED <<triggerPending, pc, hist>>
    /\ UNCHANGED <<taskVars, clock, ticks, lastTriggerTime, idx, wifiSleep, bufVars, fftVars,
                   runVars, wsVars, cfg, dsp>>

\* variant: the poll clears the flag but does not start the cycle
LoopPoll_ClearOnly(maxCycles) ==
    /\ pc = "idle"
    /\ IF triggerPending
       THEN /\ hist.cyclesStarted < maxCycles
            /\ triggerPending' = FALSE
            /\ UNCHANGED <<pc, hist>>
       ELSE UNCHANGED <<triggerPending, pc, hist>>
    /\ UNCHANGED <<taskVars, clock, ticks, lastTriggerTime, idx, wifiSleep, bufVars, fftVars,
                   runVars, wsVars, cfg, dsp>>

LoopPoll(maxCycles) ==
    /\ pc = "idle"
    /\ IF triggerPending
       THEN /\ hist.cyclesStarted < maxCycles
            /\ triggerPending' = FALSE
            /\ pc' = "sampling"
            /\ hist' = [hist EXCEPT !.cyclesStarted = @ + 1,
                                    !.busyStart = @ \/ ~hist.idleTrig,
                                    !.idleTrig = FALSE,
                                    !.consumedTs = lastTriggerTime,
                                    !.reports = 0]
       ELSE UNCHANGED <<triggerPending, pc, hist>>
    /\ UNCHANGED <<taskVars, clock, ticks, lastTriggerTime, idx, wifiSleep, bufVars, fftVars,
                   runVars, wsVars, cfg, dsp>>

(***************************************************************************)
(* performSampling (main.cpp:142-189), one action per step of its loop.    *)
(* A sensor read yields an outcome [ok, x, y, z]; the wait for the sample  *)
(* deadline (main.cpp:161-164) takes no part in what is stored.            *)
(***************************************************************************)
ReadFail == [ok |-> FALSE, x |-> 7, y |-> 7, z |-> 7]
ReadA == [ok |-> TRUE, x |-> 1, y |-> 2, z |-> 3]
ReadB == [ok |-> TRUE, x |-> 4, y |-> 5, z |-> 6]
ReadOutcomes == {ReadFail, ReadA, ReadB}
CoarseReads == {ReadA}

\* the elements lo..hi of a buffer
Elements(name, lo, hi) == {<<name, i>> : i \in lo..hi}

\* bufferX[i], bufferY[i], bufferZ[i] (main.cpp:168-175)
samplingAccess(i) == Elements("bufferX", i, i) \cup Elements("bufferY", i, i)
                     \cup Elements("bufferZ", i, i)

\* variant: the power-save setting is left as it is on entry
SamplingBegin_NoSleep ==
    /\ pc = "sampling"
    /\ IF cfg.sample_rate_hz = 0
       THEN /\ pc' = "crashed"
            /\ UNCHANGED <<wifiSleep, idx, hist>>
       ELSE /\ wifiSleep' = wifiSleep
            /\ idx' = 0
            /\ pc' = "sample_loop"
            /\ hist' = [hist EXCEPT !.reads = <<>>, !.sleepAtEntry = wifiSleep,
                                    !.rates = <<cfg.sample_rate_hz>>, !.cutoffs = <<>>]
    /\ UNCHANGED <<taskVars, clock, ticks, trigVars, bufVars, fftVars, runVars, wsVars, cfg, dsp>>

\* main.cpp:143-156: interval computed, WiFi.setSleep(true)
SamplingBegin ==
    /\ pc = "sampling"
    /\ IF cfg.sample_rate_hz = 0
       THEN /\ pc' = "crashed"      \* integer division by zero (main.cpp:152)
            /\ UNCHANGED <<wifiSleep, idx, hist>>
       ELSE /\ wifiSleep' = TRUE
            /\ idx' = 0
            /\ pc' = "sample_loop"
            /\ hist' = [hist EXCEPT !.reads = <<>>, !.sleepAtEntry = wifiSleep,
                                    !.rates = <<cfg.sample_rate_hz>>, !.cutoffs = <<>>]
    /\ UNCHANGED <<taskVars, clock, ticks, trigVars, bufVars, fftVars, runVars, wsVars, cfg, dsp>>

\* the store of one sample into a time-domain buffer
StoreSample(buf, i, v) == [buf EXCEPT ![i + 1] = v]

\* variant: a failed read leaves the slot as it was
SampleRead_SkipOnFail(outcomes) ==
    /\ pc = "sample_loop"
    /\ idx < currentSampleCount
    /\ \E o \in outcomes :
         /\ IF {"bufferX", "bufferY", "bufferZ"} \cap nullBufs # {} \/ idx >= Len(bufferX)
            THEN /\ pc' = "crashed"
                 /\ UNCHANGED <<bufferX, bufferY, bufferZ, idx>>
            ELSE /\ IF o.ok
                    THEN /\ bufferX' = StoreSample(bufferX, idx, o.x)
                         /\ bufferY' = StoreSample(bufferY, idx, o.y)
                         /\ bufferZ' = StoreSample(bufferZ, idx, o.z)
                    ELSE UNCHANGED <<bufferX, bufferY, bufferZ>>
                 /\ idx' = idx + 1
                 /\ pc' = pc
         /\ hist' = [hist EXCEPT !.reads = Append(@, o), !.access = samplingAccess(idx)]
    /\ UNCHANGED <<taskVars, clock, ticks, trigVars, wifiSleep, currentSampleCount, nullBufs,
                   fftVars, runVars, wsVars, cfg, dsp>>

\* main.cpp:159-177: one iteration of the sampling loop
SampleRead(outcomes) ==
    /\ pc = "sample_loop"
    /\ idx < currentSampleCount
    /\ \E o \in outcomes :
         /\ IF {"bufferX", "bufferY", "bufferZ"} \cap nullBufs # {} \/ idx >= Len(bufferX)
            THEN /\ pc' = "crashed"
                 /\ UNCHANGED <<bufferX, bufferY, bufferZ, idx>>
            ELSE /\ IF o.ok
                    THEN /\ bufferX' = StoreSample(bufferX, idx, o.x)
                         /\ bufferY' = StoreSample(bufferY, idx, o.y)
                         /\ bufferZ' = StoreSample(bufferZ, idx, o.z)
                    ELSE /\ bufferX' = StoreSample(bufferX, idx, 0)
                         /\ bufferY' = StoreSample(bufferY, idx, 0)
                         /\ bufferZ' = StoreSample(bufferZ, idx, 0)
                 /\ idx' = idx + 1
                 /\ pc' = pc
         /\ hist' = [hist EXCEPT !.reads = Append(@, o), !.access = samplingAccess(idx)]
    /\ UNCHANGED <<taskVars, clock, ticks, trigVars, wifiSleep, currentSampleCount, nullBufs,
                   fftVars, runVars, wsVars, cfg, dsp>>

\* main.cpp:177-189: loop exit, WiFi.setSleep(false)
SamplingEnd ==
    /\ pc = "sample_loop"
    /\ idx >= currentSampleCount
    /\ wifiSleep' = FALSE
    /\ pc' = "processing"
    /\ UNCHANGED <<taskVars, clock, ticks, trigVars, idx, bufVars, fftVars, runVars, wsVars,
                   cfg, dsp, hist>>

(***************************************************************************)
(* DSP (dsp.cpp).  Coefficients and samples are integers, and NaN stands   *)
(* for the float that is not a number: it is what every operation on it    *)
(* returns.                                                                *)
(***************************************************************************)
MAX_ORDER == 4
MAX_SOS == MAX_ORDER \div 2

NaN == -1000000000

\* float multiplication, addition and subtraction
fmul(a, b) == IF a = NaN \/ b = NaN THEN NaN ELSE a * b
fadd(a, b) == IF a = NaN \/ b = NaN THEN NaN ELSE a + b
fsub(a, b) == IF a = NaN \/ b = NaN THEN NaN ELSE a - b

ZeroState == [s \in 1..MAX_SOS |-> <<0, 0>>]

\* DSP::_resetState
resetState(d) == [d EXCEPT !.state = ZeroState]

\* wn = cutoffHz / nyquist (dsp.cpp:26-27), as the fraction <<numerator, denominator>>
normalizedCutoff(cutoffHz, sampleRateHz) == <<2 * cutoffHz, sampleRateHz>>

\* the limits put on wn (dsp.cpp:30-31); a numerator over 0 is infinite, 0 over 0 NaN
limitedCutoff(wn) ==
    IF wn[2] = 0 THEN (IF wn[1] > 0 THEN <<99, 100>> ELSE wn)
    ELSE IF wn[1] >= wn[2] THEN <<99, 100>>
    ELSE IF wn[1] <= 0 THEN <<1, 100>>
    ELSE wn

\* the fraction of Nyquist the coefficients are computed from:
\* w0 = tanf(M_PI * cutoffHz / sampleRateHz) (dsp.cpp:53) takes cutoffHz and
\* sampleRateHz themselves; wn and warped go into real_s and imag_s only, which
\* nothing reads (dsp.cpp:35, 45-46)
coeffCutoff(cutoffHz, sampleRateHz) == normalizedCutoff(cutoffHz, sampleRateHz)

\* The section coefficients [b0, b1, b2, a1, a2] of designButterworth (dsp.cpp:53-68).
\* With the cutoff at Nyquist (the default configuration) w0 = tan(pi/2) is so large
\* that k2/a0, 2*k2/a0, 2*(k2-1)/a0 and (1-k1+k2)/a0 are 1, 2, 2 and 1.
\* With a sample rate of 0 the argument of tanf is infinite (or 0/0), w0 is NaN and
\* so is every coefficient.
SectionCoeffs(cutoffHz, sampleRateHz, order, k) ==
    LET w == coeffCutoff(cutoffHz, sampleRateHz)
    IN IF w[2] = 0 THEN <<NaN, NaN, NaN, NaN, NaN>>
       ELSE IF w[1] = w[2] THEN <<1, 2, 1, 2, 1>> ELSE <<1, 2, 1, 0, 0>>

\* variant: the number of sections is not capped
sectionCount_NoCap(order) == (order + 1) \div 2

\* _numSections = (order + 1) / 2, capped at MAX_SOS (dsp.cpp:38-39); order is a
\* uint8_t and order + 1 an int, so nothing wraps at 255
sectionCount(order) ==
    IF (order + 1) \div 2 > MAX_SOS THEN MAX_SOS ELSE (order + 1) \div 2

\* DSP::designButterworth
designButterworth(d, cutoffHz, sampleRateHz, order) ==
    LET n == sectionCount(order)
    IN resetState([d EXCEPT
          !.numSections = n,
          !.sos = [s \in 1..MAX_SOS |->
                     IF s <= n THEN SectionCoeffs(cutoffHz, sampleRateHz, order, s - 1)
                     ELSE d.sos[s]]])

\* DSP::_processSample: direct form II transposed; b is the section's row of _sos,
\* z its row of _state
processSample(x, b, z) ==
    LET y == fadd(fmul(b[1], x), z[1])
    IN [y |-> y,
        z |-> <<fadd(fsub(fmul(b[2], x), fmul(b[4], y)), z[2]),
                fsub(fmul(b[3], x), fmul(b[5], y))>>]

\* the inner loop of applyFilter (dsp.cpp:99-101): x through sections s..numSections
RECURSIVE Cascade(_, _, _)
Cascade(x, s, d) ==
    IF s > d.numSections THEN [x |-> x, d |-> d]
    ELSE LET r == processSample(x, d.sos[s], d.state[s])
         IN Cascade(r.y, s + 1, [d EXCEPT !.state[s] = r.z])

RECURSIVE FilterFrom(_, _, _, _)
FilterFrom(data, i, len, d) ==
    IF i > len THEN [data |-> data, d |-> d]
    ELSE LET r == Cascade(data[i], 1, d)
         IN FilterFrom([data EXCEPT ![i] = r.x], i + 1, len, r.d)

\* DSP::applyFilter
applyFilter(data, len, d) == FilterFrom(data, 1, len, d)

\* DSP::_reverseArray
reverseArray(data, len) ==
    [i \in 1..Len(data) |-> IF i <= len THEN data[len + 1 - i] ELSE data[i]]

\* DSP::applyFiltFilt
\* DSP::applyFiltFilt; starts are the values of _state at the two calls of applyFilter
applyFiltFilt(data, len, d) ==
    LET fwd == applyFilter(data, len, resetState(d))
        bwd == applyFilter(reverseArray(fwd.data, len), len, resetState(fwd.d))
    IN [data |-> reverseArray(bwd.data, len), d |-> bwd.d,
        starts |-> <<resetState(d).state, resetState(fwd.d).state>>]

\* variant: the last bin is halved whether or not it is the first one
halvings_Unguarded(i, numBins) ==
    (IF i = 0 THEN 1 ELSE 0) + (IF i = numBins - 1 THEN 1 ELSE 0)

\* how often output[i] is divided by 2 (dsp.cpp:178-182)
halvings(i, numBins) ==
    (IF i = 0 THEN 1 ELSE 0) + (IF numBins > 1 /\ i = numBins - 1 THEN 1 ELSE 0)

\* DSP::computeFFT when its work buffer is allocated: the magnitude of each bin is a
\* term over the input it was computed from, the window, the factor scale = 2 / fftLen
\* as <<numerator, denominator>>, and the number of times it was halved
computeFFT(input, len, windowed) ==
    LET fftLen == nextPowerOf2(len)
        numBins == (fftLen \div 2) + 1
        in == SubSeq(input, 1, len)
    IN [i \in 1..numBins |->
          [kind |-> "mag", src |-> in, bin |-> i - 1, windowed |-> windowed,
           scale |-> <<2, fftLen>>,
           halved |-> halvings(i - 1, numBins)]]

\* DSP::binToFrequency, as a term
binToFrequency(binIndex, numSamples, sampleRateHz) ==
    [kind |-> "freq", src |-> <<numSamples, sampleRateHz>>, bin |-> binIndex,
     windowed |-> FALSE, halved |-> 0]

\* writing n computed values over the first n elements of an array
Overwrite(arr, vals) ==
    [i \in 1..Len(arr) |-> IF i <= Len(vals) THEN vals[i] ELSE arr[i]]

(***************************************************************************)
(* processData (main.cpp:194-242).  heap tells which of its mallocs        *)
(* succeed: the temporary buffer, and per axis the FFT work buffer and the *)
(* window.                                                                 *)
(***************************************************************************)
HeapOk == [temp |-> TRUE, fftData |-> <<TRUE, TRUE, TRUE>>, window |-> <<TRUE, TRUE, TRUE>>]
HeapNoTemp == [HeapOk EXCEPT !.temp = FALSE]
HeapNoFftY == [HeapOk EXCEPT !.fftData = <<TRUE, FALSE, TRUE>>]
HeapCases == {HeapOk, HeapNoTemp, HeapNoFftY}

\* the elements processData touches: the filters and the copies go over the samples
\* (main.cpp:203-205, 218-226), each computeFFT that gets its work buffer writes
\* output[0..numBins-1] (dsp.cpp:172-182), and the bin frequencies are written for the
\* numBins the X axis returned (main.cpp:233-236)
processingAccess(n, heap) ==
    LET numBins == (nextPowerOf2(n) \div 2) + 1
        Out(a, name) ==
            IF heap.temp /\ heap.fftData[a] THEN Elements(name, 0, numBins - 1) ELSE {}
    IN Elements("bufferX", 0, n - 1) \cup Elements("bufferY", 0, n - 1)
       \cup Elements("bufferZ", 0, n - 1)
       \cup Out(1, "fftX") \cup Out(2, "fftY") \cup Out(3, "fftZ") \cup Out(1, "freqBins")

processData(heaps) ==
    /\ pc = "processing"
    /\ \E heap \in heaps :
         LET n == currentSampleCount
             d0 == designButterworth(dsp, cfg.filter_cutoff_hz, cfg.sample_rate_hz, 4)
             fx == applyFiltFilt(bufferX, n, d0)
             fy == applyFiltFilt(bufferY, n, fx.d)
             fz == applyFiltFilt(bufferZ, n, fy.d)
             fftSize == nextPowerOf2(n)
             numBins == IF heap.fftData[1] THEN (fftSize \div 2) + 1 ELSE 0
             \* a write through a null output pointer
             fault == \/ \E a \in 1..3 : heap.fftData[a]
                                         /\ <<"fftX", "fftY", "fftZ">>[a] \in nullBufs
                      \/ numBins > 0 /\ "freqBins" \in nullBufs
             Spectrum(a, buf, old) ==
                 IF heap.fftData[a]
                 THEN Overwrite(old, computeFFT(buf, n, heap.window[a]))
                 ELSE old
         IN /\ hist' = [hist EXCEPT !.rates = Append(@, cfg.sample_rate_hz),
                                    !.cutoffs = Append(@, cfg.filter_cutoff_hz),
                                    !.access = processingAccess(n, heap)]
            /\ bufferX' = fx.data
            /\ bufferY' = fy.data
            /\ bufferZ' = fz.data
            /\ dsp' = fz.d
            /\ IF ~heap.temp
               THEN /\ pc' = "uploading"
                    /\ UNCHANGED fftVars
               ELSE IF fault
               THEN /\ pc' = "crashed"
                    /\ UNCHANGED fftVars
               ELSE /\ fftX' = Spectrum(1, fx.data, fftX)
                    /\ fftY' = Spectrum(2, fy.data, fftY)
                    /\ fftZ' = Spectrum(3, fz.data, fftZ)
                    /\ freqBins' = Overwrite(freqBins,
                                       [i \in 1..numBins |->
                                          binToFrequency(i - 1, fftSize, cfg.sample_rate_hz)])
                    /\ pc' = "uploading"
    /\ UNCHANGED <<taskVars, clock, ticks, trigVars, idx, wifiSleep, currentSampleCount, nullBufs,
                   runVars, wsVars, cfg>>

(***************************************************************************)
(* uploadData (main.cpp:247-335)                                           *)
(***************************************************************************)
\* getCurrentEpochTimestampNs (main.cpp:58-71); reading is what gettimeofday returns
getCurrentEpochTimestampNs(reading) ==
    IF ~reading.ok THEN [ok |-> FALSE, ns |-> TsZero]
    ELSE IF reading.sec < MinValidEpochSec THEN [ok |-> FALSE, ns |-> TsZero]
    ELSE [ok |-> TRUE, ns |-> TsAdd(Ts(reading.sec, 0), reading.usec * NsPerUsec)]

\* variant: only a candidate strictly below the last issued value is clamped
nextBaseTimestamp_Strict(candidateNs, lastIssuedNs) ==
    IF TsLess(candidateNs, lastIssuedNs) THEN TsAdd(lastIssuedNs, 1) ELSE candidateNs

\* variant: the clamp adds one to the candidate
nextBaseTimestamp_CandPlus(candidateNs, lastIssuedNs) ==
    IF TsLeq(candidateNs, lastIssuedNs) THEN TsAdd(candidateNs, 1) ELSE candidateNs

\* main.cpp:279-283: the base timestamp issued for a candidate reading
nextBaseTimestamp(candidateNs, lastIssuedNs) ==
    IF TsLeq(candidateNs, lastIssuedNs) THEN TsAdd(lastIssuedNs, 1) ELSE candidateNs

\* variant: the sequence number is not advanced
nextRunSequence_Keep(seq) == seq

\* runSequence++ on a uint32_t (main.cpp:53, 286)
nextRunSequence(seq) == (seq + 1) % CounterMod

\* a decimal number as printf writes it: the sequence of its digits
RECURSIVE Decimal(_)
Decimal(n) ==
    IF n < 10 THEN <<<<"0", "1", "2", "3", "4", "5", "6", "7", "8", "9">>[n + 1]>>
    ELSE Decimal(n \div 10) \o Decimal(n % 10)

\* ConfigManager::getDeviceId: the last two bytes of the hardware address in hex
DeviceId == <<"A", "1", "B", "2">>

\* char runId[64]
RunIdSize == 64

\* snprintf(runId, sizeof(runId), "%s-%llu-%lu", deviceId, baseTimestampNs / 10^9,
\* runSequence) (main.cpp:287-290): at most RunIdSize - 1 characters are kept
formatRunId(deviceId, baseTs, seq) ==
    LET full == deviceId \o <<"-">> \o Decimal(baseTs.s) \o <<"-">> \o Decimal(seq)
    IN IF Len(full) > RunIdSize - 1 THEN SubSeq(full, 1, RunIdSize - 1) ELSE full

\* WebServer::updateStatus (web_server.cpp:43-48)
updateStatus(ltt, sampleCount, influxOk) ==
    /\ wsLastTriggerTime' = ltt
    /\ wsLastSampleCount' = sampleCount
    /\ wsLastInfluxOk' = influxOk
    /\ wsTriggerCount' = IF ltt > 0 THEN wsTriggerCount + 1 ELSE wsTriggerCount

\* the epoch clock as gettimeofday reports it
Reading(ok, sec, usec) == [ok |-> ok, sec |-> sec, usec |-> usec]
ClockReadings ==
    {Reading(TRUE, MinValidEpochSec, 0), Reading(TRUE, MinValidEpochSec, 1),
     Reading(TRUE, MinValidEpochSec, 2), Reading(TRUE, MinValidEpochSec - 1, 999999),
     Reading(FALSE, 0, 0)}

\* results of writeRunMetadata, writeFrequencyData and writeTimeData
CoarseWrites == {<<TRUE, TRUE, TRUE>>, <<TRUE, FALSE, TRUE>>}
AllWrites == {<<m, f, t>> : m \in BOOLEAN, f \in BOOLEAN, t \in BOOLEAN}

\* what the network and the time service do during one upload: WiFi station connected,
\* clock already valid, SNTP sync result, the clock reading, and the result of each write
NetOk(r, w) ==
    [connected |-> TRUE, validTime |-> TRUE, syncOk |-> TRUE, reading |-> r,
     meta |-> w[1], freq |-> w[2], time |-> w[3]]
NetCases(readings, writes) ==
    LET r0 == CHOOSE r \in readings : TRUE
        w0 == CHOOSE w \in writes : TRUE
    IN {NetOk(r, w) : r \in readings, w \in writes}
       \cup {[NetOk(r0, w0) EXCEPT !.connected = FALSE],
             [NetOk(r0, w0) EXCEPT !.validTime = FALSE],
             [NetOk(r0, w0) EXCEPT !.validTime = FALSE, !.syncOk = FALSE]}

\* variant: a rejected clock reading does not end the upload
timeUnavailable_SyncOnly(net, ts) == ~net.validTime /\ ~net.syncOk

\* no timestamp for the run: the clock is not synchronized and SNTP sync fails, or
\* the reading is rejected (main.cpp:263-277)
timeUnavailable(net, ts) == (~net.validTime /\ ~net.syncOk) \/ ~ts.ok

\* the part of an upload's environment that is not a write result
netSeen(net) ==
    <<[connected |-> net.connected, validTime |-> net.validTime,
       syncOk |-> net.syncOk, reading |-> net.reading]>>

\* variant: the writes stop at the first failure
attemptedWrites_ShortCircuit(net, sendTime) ==
    <<[name |-> "meta", ok |-> net.meta]>>
    \o (IF net.meta THEN <<[name |-> "freq", ok |-> net.freq]>> ELSE <<>>)
    \o (IF net.meta /\ net.freq /\ sendTime
        THEN <<[name |-> "time", ok |-> net.time]>> ELSE <<>>)

\* the writes uploadData makes, in order, with what each returned (main.cpp:297-323)
attemptedWrites(net, sendTime) ==
    <<[name |-> "meta", ok |-> net.meta], [name |-> "freq", ok |-> net.freq]>>
    \o (IF sendTime THEN <<[name |-> "time", ok |-> net.time]>> ELSE <<>>)

\* bool success = true; success &= ... for every write made (main.cpp:297-323)
allSucceeded(writes) == \A k \in DOMAIN writes : writes[k].ok

\* the elements the writes read: bins 1..numBins-1 of the four frequency-domain
\* buffers (influxdb_client.cpp:134-144) and, with send_time_domain, every sample
\* (influxdb_client.cpp:185-191)
uploadAccess(n, sendTime) ==
    LET numBins == (nextPowerOf2(n) \div 2) + 1
    IN Elements("freqBins", 1, numBins - 1) \cup Elements("fftX", 1, numBins - 1)
       \cup Elements("fftY", 1, numBins - 1) \cup Elements("fftZ", 1, numBins - 1)
       \cup (IF sendTime
             THEN Elements("bufferX", 0, n - 1) \cup Elements("bufferY", 0, n - 1)
                  \cup Elements("bufferZ", 0, n - 1)
             ELSE {})

uploadData(nets) ==
    /\ pc = "uploading"
    /\ pc' = "idle"
    /\ \E net \in nets :
         LET ts == getCurrentEpochTimestampNs(net.reading)
             base == nextBaseTimestamp(ts.ns, lastUploadTimestampNs)
             writes == attemptedWrites(net, cfg.send_time_domain)
             success == allSucceeded(writes)
             ended == [hist EXCEPT !.cyclesEnded = @ + 1, !.writes = <<>>,
                                   !.upNet = netSeen(net), !.access = {}]
         IN IF ~isInfluxConfigured \/ ~net.connected
            THEN \* main.cpp:250-258: return without a status report
                 /\ UNCHANGED <<runVars, wsVars>>
                 /\ hist' = ended
            ELSE IF timeUnavailable(net, ts)
            THEN \* main.cpp:263-277
                 /\ updateStatus(lastTriggerTime, currentSampleCount, FALSE)
                 /\ UNCHANGED runVars
                 /\ hist' = [ended EXCEPT !.reports = @ + 1]
            ELSE /\ lastUploadTimestampNs' = base
                 /\ runSequence' = nextRunSequence(runSequence)
                 /\ updateStatus(lastTriggerTime, currentSampleCount, success)
                 /\ hist' = [ended EXCEPT !.reports = @ + 1,
                                          !.rates = Append(@, cfg.sample_rate_hz),
                                          !.cutoffs = Append(@, cfg.filter_cutoff_hz),
                                          !.writes = writes,
                                          !.access = uploadAccess(currentSampleCount,
                                                                  cfg.send_time_domain),
                                          !.candidates = Append(@, ts.ns),
                                          !.issued = Append(@, base),
                                          !.seqs = Append(@, nextRunSequence(runSequence)),
                                          !.runIds = Append(@,
                                              formatRunId(DeviceId, base,
                                                          nextRunSequence(runSequence)))]
    /\ UNCHANGED <<taskVars, clock, ticks, trigVars, idx, wifiSleep, bufVars, fftVars, cfg, dsp>>

(***************************************************************************)
(* InfluxDBClient (influxdb_client.cpp:66-97, 120-214).  One action per    *)
(* iteration of the point loop, per POST attempt, and per return of        *)
(* _sendLineProtocol to the write that called it.                          *)
(***************************************************************************)
INFLUX_WRITE_BATCH_SIZE == 500
INFLUX_RETRY_COUNT == 3
BackoffBaseMs == 100

\* influxdb_client.cpp:84
isSuccessCode(httpCode) == httpCode >= 200 /\ httpCode < 300

\* variant: one more attempt than the retry count
retryAllowed_Inclusive(attempt) == attempt <= INFLUX_RETRY_COUNT

\* the loop condition of _sendLineProtocol (influxdb_client.cpp:74)
retryAllowed(attempt) == attempt < INFLUX_RETRY_COUNT

\* variant: the delay grows linearly
backoffDelay_Linear(attempt) == BackoffBaseMs * (attempt + 1)

\* delay(100 * (1 << attempt)) (influxdb_client.cpp:92)
backoffDelay(attempt) == BackoffBaseMs * (2 ^ attempt)

\* variant: the DC bin is not skipped
pointEmitted_All(fn, i) == TRUE

\* whether iteration i appends a point: writeFrequencyData skips i = 0
\* (influxdb_client.cpp:136), writeTimeData skips nothing
pointEmitted(fn, i) == ~(fn = "freq" /\ i = 0)

\* variant: the batch is sent one point late
batchFull_Late(batchCount) == batchCount > INFLUX_WRITE_BATCH_SIZE

\* influxdb_client.cpp:150, 196
batchFull(batchCount) == batchCount >= INFLUX_WRITE_BATCH_SIZE

\* the entry of _sendLineProtocol(batch) from call site ret
EnterSend(st, ret) ==
    [st EXCEPT !.pc = "send", !.ret = ret, !.attempt = 0, !.posts = <<>>,
               !.delays = <<>>, !.sends = @ + 1]

\* the return of _sendLineProtocol: its locals are gone
LeaveSend(st) == [st EXCEPT !.attempt = 0, !.posts = <<>>, !.delays = <<>>]

\* the call of a write with n bins or samples and a base timestamp on a client that
\* is configured or not
BeginWrite(fn, n, configured, base) ==
    [InfluxIdle EXCEPT !.pc = "loop", !.fn = fn, !.n = n, !.configured = configured,
                       !.base = base]

\* uint32_t sampleIntervalUs = 1000000 / cfg.sample_rate_hz (main.cpp:152)
sampleIntervalUs(sampleRateHz) == 1000000 \div sampleRateHz

\* uint64_t sampleIntervalNs = (uint64_t)(1000000000.0 / sampleRateHz)
\* (influxdb_client.cpp:178): the quotient of doubles, truncated
sampleIntervalNs(sampleRateHz) == NsPerSec \div sampleRateHz

\* the deadline of sample i after i additions of the interval (main.cpp:164), in
\* microseconds after the first deadline
deadlineOffsetUs(i, sampleRateHz) == i * sampleIntervalUs(sampleRateHz)

\* the timestamp of point i less baseTimestampNs (influxdb_client.cpp:191)
pointOffsetNs(i, sampleRateHz) == i * sampleIntervalNs(sampleRateHz)

\* uint64_t timestampIncrement = 1000000 (influxdb_client.cpp:132)
FreqTimestampIncrementNs == 1000000

\* variant: the offsets are counted from the first emitted bin
freqPointTimestamp_FromFirst(base, i) ==
    TsAdd(Ts(base.s + ((i - 1) \div 1000), base.n),
          ((i - 1) % 1000) * FreqTimestampIncrementNs)

\* baseTimestampNs + (i * timestampIncrement) in 64 bits (influxdb_client.cpp:144):
\* 1000 increments are one second
freqPointTimestamp(base, i) ==
    TsAdd(Ts(base.s + (i \div 1000), base.n), (i % 1000) * FreqTimestampIncrementNs)

\* baseTimestampNs + (i * sampleIntervalNs) (influxdb_client.cpp:191) at the default rate
timePointTimestamp(base, i) == TsAdd(base, pointOffsetNs(i, DEFAULT_SAMPLE_RATE_HZ))

\* the timestamp printed into the point of iteration i
pointTimestamp(fn, base, i) ==
    IF fn = "freq" THEN freqPointTimestamp(base, i) ELSE timePointTimestamp(base, i)

influxFrame ==
    UNCHANGED <<nvs, webTask, wifi, acq, calc, clock, ticks, trigVars, pc, idx, wifiSleep, bufVars, fftVars,
                runVars, wsVars, cfg, dsp, hist>>

\* String(uint32_t) + String(uint32_t) of the seconds and of the nanoseconds within
\* the second (influxdb_client.cpp:113-114); seconds up to 2^31 - 1 pass the cast to
\* uint32_t unchanged
timestampToken(timestampNs) == Decimal(timestampNs.s) \o Decimal(timestampNs.n)

\* the line of writePoint: measurement and tags, fields, and the timestamp if it is
\* greater than 0 (influxdb_client.cpp:101-115)
pointLine(timestampNs) ==
    <<<<"m", ",", "t">>, <<"f">>>>
    \o (IF TsLess(TsZero, timestampNs) THEN <<timestampToken(timestampNs)>> ELSE <<>>)

\* InfluxDBClient::writePoint: builds the line and hands it to _sendLineProtocol
\* (influxdb_client.cpp:99-118)
writePoint(stamps) ==
    /\ influx.pc = "idle"
    /\ \E timestampNs \in stamps, configured \in BOOLEAN :
         influx' = EnterSend([InfluxIdle EXCEPT !.fn = "point", !.n = 1,
                                               !.configured = configured,
                                               !.base = timestampNs,
                                               !.batch = <<0>>,
                                               !.line = pointLine(timestampNs)],
                             "tail")
    /\ influxFrame

\* InfluxDBClient::writeFrequencyData, up to its loop (influxdb_client.cpp:120-132)
writeFrequencyData(counts, bases) ==
    /\ influx.pc = "idle"
    /\ \E n \in counts, configured \in BOOLEAN, base \in bases :
         influx' = BeginWrite("freq", n, configured, base)
    /\ influxFrame

\* InfluxDBClient::writeTimeData, up to its loop (influxdb_client.cpp:171-183)
writeTimeData(counts, bases) ==
    /\ influx.pc = "idle"
    /\ \E n \in counts, configured \in BOOLEAN, base \in bases :
         influx' = BeginWrite("time", n, configured, base)
    /\ influxFrame

\* one iteration of the point loop (influxdb_client.cpp:134-158, 185-204)
WritePoint ==
    /\ influx.pc = "loop"
    /\ influx.i < influx.n
    /\ LET next == [influx EXCEPT !.i = @ + 1]
           added == [next EXCEPT !.batch = Append(@, influx.i),
                                 !.stamps = Append(@, pointTimestamp(influx.fn, influx.base,
                                                                     influx.i))]
       IN influx' = IF ~pointEmitted(influx.fn, influx.i) THEN next
                    ELSE IF batchFull(Len(added.batch)) THEN EnterSend(added, "loop")
                    ELSE added
    /\ influxFrame

\* after the loop: the remaining points (influxdb_client.cpp:160-168, 206-213)
WriteTail ==
    /\ influx.pc = "loop"
    /\ influx.i >= influx.n
    /\ influx' = IF Len(influx.batch) > 0 THEN EnterSend(influx, "tail")
                 ELSE [influx EXCEPT !.pc = "returned", !.result = TRUE]
    /\ influxFrame

\* InfluxDBClient::_sendLineProtocol: the configuration check, one POST with the
\* server's answer, or the exit of the retry loop (influxdb_client.cpp:66-97)
SendAttempt(codes) ==
    /\ influx.pc = "send"
    /\ IF ~influx.configured
       THEN influx' = [influx EXCEPT !.pc = "send_done", !.sendOk = FALSE]
       ELSE IF ~retryAllowed(influx.attempt)
       THEN influx' = [influx EXCEPT !.pc = "send_done", !.sendOk = FALSE]
       ELSE \E httpCode \in codes :
              influx' =
                 IF isSuccessCode(httpCode)
                 THEN [influx EXCEPT !.posts = Append(@, httpCode),
                                     !.pc = "send_done", !.sendOk = TRUE,
                                     !.delivered = @ \o influx.batch,
                                     !.batches = Append(@, Len(influx.batch))]
                 ELSE [influx EXCEPT !.posts = Append(@, httpCode),
                                     !.delays = Append(@, backoffDelay(influx.attempt)),
                                     !.attempt = @ + 1]
    /\ influxFrame

\* variant: a failed send does not end the write
SendReturn_IgnoreFailure ==
    /\ influx.pc = "send_done"
    /\ influx' = IF influx.ret = "loop"
                 THEN [LeaveSend(influx) EXCEPT !.pc = "loop", !.batch = <<>>]
                 ELSE [LeaveSend(influx) EXCEPT !.pc = "returned", !.result = TRUE]
    /\ influxFrame

\* the write takes the result of the send (influxdb_client.cpp:151-157, 162-168)
SendReturn ==
    /\ influx.pc = "send_done"
    /\ influx' = IF ~influx.sendOk
                 THEN [LeaveSend(influx) EXCEPT !.pc = "returned", !.result = FALSE]
                 ELSE IF influx.ret = "loop"
                 THEN [LeaveSend(influx) EXCEPT !.pc = "loop", !.batch = <<>>]
                 ELSE [LeaveSend(influx) EXCEPT !.pc = "returned", !.result = TRUE]
    /\ influxFrame

(***************************************************************************)
(* Calls of the stateless helpers, each with every argument of its range.  *)
(***************************************************************************)
calcFrame ==
    UNCHANGED <<nvs, webTask, influx, wifi, acq, clock, ticks, trigVars, pc, idx, wifiSleep, bufVars,
                fftVars, runVars, wsVars, cfg, dsp, hist>>

\* DSP::nextPowerOf2(sampleCount) as allocateBuffers, processData and uploadData call it
\* (main.cpp:112, 211, 292)
CallNextPowerOf2(counts) ==
    /\ calc.fn = "none"
    /\ \E n \in counts :
         calc' = [fn |-> "nextPowerOf2", in |-> <<n>>, out |-> <<nextPowerOf2(n)>>]
    /\ calcFrame

\* DSP::computeFFT(input, output, len, sampleRateHz) on len samples
CallComputeFFT(lens) ==
    /\ calc.fn = "none"
    /\ \E len \in lens, windowed \in BOOLEAN :
         calc' = [fn |-> "computeFFT", in |-> <<len>>,
                  out |-> <<computeFFT(Fill(len, 1), len, windowed)>>]
    /\ calcFrame

(***************************************************************************)
(* WiFiManager (wifi_manager.cpp).  loop() calls wifiManager.loop() once   *)
(* per iteration (main.cpp:421), so the connection is looked at only       *)
(* between measurement cycles.                                             *)
(***************************************************************************)
WIFI_CONNECT_TIMEOUT_MS == 15000
WIFI_RETRY_COUNT == 3

wifiFrame ==
    UNCHANGED <<nvs, webTask, influx, acq, calc, clock, ticks, trigVars, pc, idx, wifiSleep, bufVars,
                fftVars, runVars, wsVars, cfg, dsp, hist>>

\* variant: one attempt fewer
retriesExhausted_Early(attempts) == attempts + 1 >= WIFI_RETRY_COUNT

\* wifi_manager.cpp:90
retriesExhausted(attempts) == attempts >= WIFI_RETRY_COUNT

\* wifi_manager.cpp:85
connectTimedOut(elapsed) == elapsed > WIFI_CONNECT_TIMEOUT_MS

\* WiFiManager::connectStation, from begin() or reconnect() (wifi_manager.cpp:51-69)
connectStation(ssids) ==
    /\ pc = "idle"
    /\ wifi.links < MaxLinks
    /\ \E ssid \in ssids :
         wifi' = IF ssid = "" THEN wifi
                 ELSE [wifi EXCEPT !.state = "CONNECTING", !.connectAttempts = 0,
                                   !.elapsed = 0, !.timeouts = 0, !.links = @ + 1]
    /\ wifiFrame

\* WiFiManager::startAP from begin() without a configured network
\* (wifi_manager.cpp:20-22, 34-48)
startAP ==
    /\ pc = "idle"
    /\ wifi.state = "DISCONNECTED"
    /\ wifi' = [wifi EXCEPT !.state = "AP_MODE"]
    /\ wifiFrame

\* time passes while connecting: up to the timeout, or beyond it
ConnectWait ==
    /\ wifi.state = "CONNECTING"
    /\ \E e \in {WIFI_CONNECT_TIMEOUT_MS, WIFI_CONNECT_TIMEOUT_MS + 1} :
         /\ e > wifi.elapsed
         /\ wifi' = [wifi EXCEPT !.elapsed = e]
    /\ wifiFrame

\* WiFiManager::_handleConnection (wifi_manager.cpp:77-117); connected is
\* WiFi.status() == WL_CONNECTED
handleConnection(statuses) ==
    /\ pc = "idle"
    /\ wifi.state \in {"CONNECTING", "CONNECTED_STATION"}
    /\ \E connected \in statuses :
         wifi' =
            IF wifi.state = "CONNECTING"
            THEN IF connected THEN [wifi EXCEPT !.state = "CONNECTED_STATION"]
                 ELSE IF connectTimedOut(wifi.elapsed)
                 THEN IF retriesExhausted(wifi.connectAttempts + 1)
                      THEN [wifi EXCEPT !.connectAttempts = @ + 1, !.timeouts = @ + 1,
                                        !.state = "AP_MODE"]
                      ELSE [wifi EXCEPT !.connectAttempts = @ + 1, !.timeouts = @ + 1,
                                        !.elapsed = 0]
                 ELSE wifi
            ELSE IF ~connected /\ wifi.links < MaxLinks
                 THEN [wifi EXCEPT !.state = "CONNECTING", !.elapsed = 0,
                                   !.connectAttempts = 0, !.timeouts = 0, !.links = @ + 1]
                 ELSE wifi
    /\ wifiFrame

\* sample i of one cycle at one sample rate: when acquisition schedules it and the
\* timestamp offset writeTimeData gives it
CallSampleIntervals(rates, indices) ==
    /\ calc.fn = "none"
    /\ \E rate \in rates, i \in indices :
         calc' = [fn |-> "sampleInterval", in |-> <<rate, i>>,
                  out |-> <<pointOffsetNs(i, rate), deadlineOffsetUs(i, rate)>>]
    /\ calcFrame

\* variant: the stored token is sent back
generateConfigJson_EchoToken(c) ==
    <<<<"wifi_ssid", c.wifi_ssid>>, <<"wifi_password", "">>,
      <<"influx_url", c.influx_url>>, <<"influx_token", c.influx_token>>,
      <<"influx_org", c.influx_org>>, <<"operation_id", c.operation_id>>,
      <<"sample_count", c.sample_count>>, <<"send_time_domain", c.send_time_domain>>>>

\* WebServer::_generateConfigJson (web_server.cpp:241-277): the members of the JSON
\* object in the order they are set, for the fields of DeviceConfig kept here
generateConfigJson(c) ==
    <<<<"wifi_ssid", c.wifi_ssid>>, <<"wifi_password", "">>,
      <<"influx_url", c.influx_url>>, <<"influx_token", "">>,
      <<"influx_org", c.influx_org>>, <<"operation_id", c.operation_id>>,
      <<"sample_count", c.sample_count>>, <<"send_time_domain", c.send_time_domain>>>>

\* GET /api/config on two devices (web_server.cpp:55-57, 159-162)
CallGenerateConfigJson(configs) ==
    /\ calc.fn = "none"
    /\ \E c1 \in configs, c2 \in configs :
         calc' = [fn |-> "generateConfigJson", in |-> <<c1, c2>>,
                  out |-> <<generateConfigJson(c1), generateConfigJson(c2)>>]
    /\ calcFrame

(***************************************************************************)
(* The timing of the sampling loop (main.cpp:149-177).  micros() is a      *)
(* 32-bit counter; as for millis() it wraps at CounterMod here.            *)
(***************************************************************************)
micros(now) == now % CounterMod

acqFrame ==
    UNCHANGED <<nvs, webTask, influx, wifi, calc, clock, ticks, trigVars, pc, idx, wifiSleep,
                bufVars, fftVars, runVars, wsVars, cfg, dsp, hist>>

\* uint32_t nextSampleTime = micros() (main.cpp:152-153)
TimingBegin(starts, rates, counts) ==
    /\ acq.pc = "idle"
    /\ \E t \in starts, rate \in rates, n \in counts :
         acq' = [AcqIdle EXCEPT !.pc = "wait", !.now = t, !.t0 = t,
                                !.interval = sampleIntervalUs(rate),
                                !.nextSampleTime = micros(t), !.count = n]
    /\ acqFrame

\* while (micros() < nextSampleTime) {} (main.cpp:161-163): the loop is left at the
\* first microsecond at which its condition is false
BusyWait ==
    /\ acq.pc = "wait"
    /\ acq.i < acq.count
    /\ micros(acq.now) < acq.nextSampleTime
    /\ acq' = [acq EXCEPT !.now = @ + (acq.nextSampleTime - micros(acq.now))]
    /\ acqFrame

\* nextSampleTime += sampleIntervalUs and the read of sample i, which takes some
\* time (main.cpp:164-176)
TimedRead(durations) ==
    /\ acq.pc = "wait"
    /\ acq.i < acq.count
    /\ ~(micros(acq.now) < acq.nextSampleTime)
    /\ \E d \in durations :
         acq' = [acq EXCEPT !.nextSampleTime = (@ + acq.interval) % CounterMod,
                            !.readAt = Append(@, acq.now),
                            !.i = @ + 1,
                            !.now = @ + d]
    /\ acqFrame

\* the end of the loop (main.cpp:159, 177)
TimingEnd ==
    /\ acq.pc = "wait"
    /\ acq.i >= acq.count
    /\ acq' = [acq EXCEPT !.pc = "done"]
    /\ acqFrame

(***************************************************************************)
(* Calls of the filter interface of DSP (dsp.h: designButterworth,         *)
(* applyFilter, applyFiltFilt), in any order.                              *)
(***************************************************************************)
dspFrame ==
    UNCHANGED <<nvs, webTask, influx, wifi, acq, clock, ticks, trigVars, pc, idx, wifiSleep, bufVars,
                fftVars, runVars, wsVars, cfg>>

\* DSP::designButterworth(cutoffHz, sampleRateHz, 4) as processData calls it (main.cpp:201)
CallDesignButterworth(designs) ==
    /\ hist.dspCalls < MaxCalls
    /\ \E des \in designs :
         /\ dsp' = designButterworth(dsp, des[1], des[2], 4)
         /\ calc' = [fn |-> "designButterworth", in |-> des,
                     out |-> <<coeffCutoff(des[1], des[2])>>]
    /\ hist' = [hist EXCEPT !.dspCalls = @ + 1]
    /\ dspFrame

\* DSP::designButterworth with the default cutoff and rate and any order a uint8_t holds
CallDesignOrder(orders) ==
    /\ hist.dspCalls = 0
    /\ \E order \in orders :
         /\ dsp' = designButterworth(dsp, DEFAULT_FILTER_CUTOFF_HZ, DEFAULT_SAMPLE_RATE_HZ,
                                     order)
         /\ calc' = [fn |-> "designButterworth", in |-> <<order>>,
                     out |-> <<sectionCount(order)>>]
         /\ hist' = [hist EXCEPT !.dspCalls = @ + 1, !.order = order]
    /\ dspFrame

\* DSP::applyFilter(data, len) called through the public interface
CallApplyFilter(datas) ==
    /\ hist.dspCalls < MaxCalls
    /\ \E data \in datas :
         LET r == applyFilter(data, Len(data), dsp)
         IN /\ dsp' = r.d
            /\ calc' = [fn |-> "applyFilter", in |-> <<data, <<dsp.state>>>>,
                        out |-> <<r.data>>]
    /\ hist' = [hist EXCEPT !.dspCalls = @ + 1]
    /\ dspFrame

\* DSP::applyFiltFilt(data, len) as processData calls it (main.cpp:203-205)
CallApplyFiltFilt(datas) ==
    /\ hist.dspCalls < MaxCalls
    /\ \E data \in datas :
         LET r == applyFiltFilt(data, Len(data), dsp)
         IN /\ dsp' = r.d
            /\ calc' = [fn |-> "applyFiltFilt", in |-> <<data, r.starts>>,
                        out |-> <<r.data>>]
    /\ hist' = [hist EXCEPT !.dspCalls = @ + 1]
    /\ dspFrame

(***************************************************************************)
(* Configuration update (web_server.cpp:279-295, 297-366): the handler     *)
(* runs in the web server's task, beside loop().  It writes the request's  *)
(* fields into the live configuration, saves it and, if the save           *)
(* succeeded, restarts the device one second later.                        *)
(***************************************************************************)
MAX_SAMPLE_COUNT == 8000

\* WebServer::_parseConfigJson, the sample_count field (web_server.cpp:349-352)
parseSampleCount(requested) ==
    IF requested > MAX_SAMPLE_COUNT THEN MAX_SAMPLE_COUNT ELSE requested

\* variant: the requested sensitivity is stored as it is
parseSensitivity_Unclamped(requested) == requested

\* cfg.sensitivity = doc["sensitivity"]; if (cfg.sensitivity > 3) cfg.sensitivity = 3;
\* (web_server.cpp:344-347)
parseSensitivity(requested) ==
    IF requested > MAX_SENSITIVITY THEN MAX_SENSITIVITY ELSE requested

\* WebServer::_handlePostConfig up to the delay before the restart; saveOk is the result
\* of ConfigManager::save
handlePostConfig(requests, maxPosts) ==
    /\ webTask = "idle"
    /\ pc # "crashed"
    /\ hist.configPosts < maxPosts
    /\ \E req \in requests, saveOk \in BOOLEAN :
         /\ cfg' = [cfg EXCEPT !.sensitivity = parseSensitivity(req.sensitivity),
                               !.sample_count = parseSampleCount(req.sample_count),
                               !.sample_rate_hz = req.sample_rate_hz,
                               !.filter_cutoff_hz = req.filter_cutoff_hz]
         /\ nvs' = IF saveOk THEN [valid |-> TRUE, config |-> cfg'] ELSE nvs
         /\ webTask' = IF saveOk THEN "restart_wait" ELSE "idle"
    /\ hist' = [hist EXCEPT !.configPosts = @ + 1]
    /\ UNCHANGED <<influx, wifi, acq, calc, clock, ticks, trigVars, pc, idx, wifiSleep, bufVars, fftVars,
                   runVars, wsVars, dsp>>

\* WebServer::_handleReset up to the delay before the restart: the defaults are put in
\* place and saved, and the restart follows whatever save returned
\* (web_server.cpp:393-401)
handleReset(maxPosts) ==
    /\ webTask = "idle"
    /\ pc # "crashed"
    /\ hist.configPosts < maxPosts
    /\ cfg' = getDefaultConfig
    /\ \E saveOk \in BOOLEAN :
         nvs' = IF saveOk THEN [valid |-> TRUE, config |-> cfg'] ELSE nvs
    /\ webTask' = "restart_wait"
    /\ hist' = [hist EXCEPT !.configPosts = @ + 1]
    /\ UNCHANGED <<influx, wifi, acq, calc, clock, ticks, trigVars, pc, idx, wifiSleep,
                   bufVars, fftVars, runVars, wsVars, dsp>>

\* ESP.restart() (web_server.cpp:287, 400) followed by setup(), which loads the stored
\* configuration
espRestart(failSets) ==
    /\ webTask = "restart_wait"
    /\ webTask' = "idle"
    /\ clock' = BootMillis
    /\ triggerPending' = FALSE
    /\ lastTriggerTime' = 0
    /\ pc' = "idle"
    /\ idx' = 0
    /\ wifiSleep' = TRUE
    /\ cfg' = load(nvs)
    /\ \E failed \in failSets :
         LET a == allocateBuffers(cfg'.sample_count, failed, 0)
         IN /\ nullBufs' = a.nullBufs
            /\ bufferX' = a.bufferX /\ bufferY' = a.bufferY /\ bufferZ' = a.bufferZ
            /\ freqBins' = a.freqBins /\ fftX' = a.fftX /\ fftY' = a.fftY /\ fftZ' = a.fftZ
            /\ currentSampleCount' = a.currentSampleCount
    /\ runSequence' = 0
    /\ lastUploadTimestampNs' = TsZero
    /\ wsLastTriggerTime' = 0
    /\ wsLastSampleCount' = 0
    /\ wsLastInfluxOk' = TRUE
    /\ wsTriggerCount' = 0
    /\ dsp' = [numSections |-> 0,
               sos |-> <<<<0, 0, 0, 0, 0>>, <<0, 0, 0, 0, 0>>>>,
               state |-> <<<<0, 0>>, <<0, 0>>>>]
    /\ influx' = InfluxIdle
    /\ hist' = [HistInit EXCEPT !.cyclesStarted = hist.cyclesStarted,
                                !.cyclesEnded = hist.cyclesStarted,
                                !.configPosts = hist.configPosts]
    /\ wifi' = WifiIdle
    /\ UNCHANGED <<ticks, nvs, acq, calc>>

(***************************************************************************)
(* Time passes.  Steps of 100 and 101 ms give separations of 0, 100, 101,  *)
(* 200, ... ms: inside the debounce window, at its end, and just past it.  *)
(***************************************************************************)
TickSteps == {DebounceMs, DebounceMs + 1}

Tick ==
    /\ ticks < MaxTicks
    /\ \E d \in TickSteps : clock' = clock + d
    /\ ticks' = ticks + 1
    /\ UNCHANGED <<taskVars, triggerPending, lastTriggerTime, pc, idx, wifiSleep,
                   bufVars, fftVars, runVars, wsVars, cfg, dsp, hist>>

(***************************************************************************)
(* Specifications                                                          *)
(*   Spec    : hardware edges and manual triggers arrive at any time while *)
(*             the clock advances; the network and the heap behave         *)
(*   SpecAcq : manual triggers; every sample count up to MaxSamples, every *)
(*             sensor outcome, startup allocation failures                 *)
(*   SpecTime : the deadlines of the sampling loop against the wrapping    *)
(*              microsecond counter                                        *)
(*   SpecSect : designButterworth over every filter order, then applyFilter *)
(*   SpecUp  : manual triggers; configured or not, connected or not, every *)
(*             reading of the epoch clock, failing writes                  *)
(*   SpecConf : configuration updates, factory resets, saves and loads     *)
(*   SpecCfg : manual triggers and configuration updates with restarts     *)
(*   SpecFft : computeFFT over input lengths                               *)
(*   SpecFilt : calls of the filter interface of DSP in any order          *)
(*   SpecIval : sample intervals of acquisition and of the time-domain     *)
(*              upload over sample rates                                   *)
(*   SpecJson : GET /api/config on pairs of device configurations           *)
(*   SpecPoint : writePoint over timestamps                                *)
(*   SpecPow : nextPowerOf2 over every sample count                        *)
(*   SpecRes : uploads under every combination of write results            *)
(*   SpecWifi : the WiFi connection state machine between cycles           *)
(*   SpecWrite : one write of the InfluxDB client, every server answer     *)
(***************************************************************************)
NoFail == {{}}
StartupFails == {{}, BufNames, {"fftX", "fftY", "fftZ", "freqBins"}}
GoodNet == {NetOk(Reading(TRUE, MinValidEpochSec, 1), <<TRUE, TRUE, TRUE>>)}

\* the counter 100 ms before it wraps, no trigger accepted since boot
WrapStart == CounterMod - DebounceMs

Init == InitWith({BootMillis, WrapStart}, {ConfigOf(1, "token", FALSE)}, NoFail)

Next ==
    \/ Tick
    \/ plcTriggerISR
    \/ manualTriggerCallback
    \/ LoopPoll(MaxCycles)
    \/ SamplingBegin
    \/ SampleRead(CoarseReads)
    \/ SamplingEnd
    \/ processData({HeapOk})
    \/ uploadData(GoodNet)

Spec == Init /\ [][Next]_vars

InitAcq ==
    InitWith({BootMillis},
             {ConfigOf(n, "token", FALSE) : n \in 0..MaxSamples},
             StartupFails)

NextAcq ==
    \/ manualTriggerCallback
    \/ LoopPoll(MaxAcq)
    \/ SamplingBegin
    \/ SampleRead(ReadOutcomes)
    \/ SamplingEnd
    \/ processData(HeapCases)
    \/ uploadData(GoodNet)

SpecAcq == InitAcq /\ [][NextAcq]_vars

InitUp ==
    InitWith({BootMillis},
             {ConfigOf(2, tok, st) : tok \in {"", "token"}, st \in BOOLEAN},
             NoFail)

\* every clock reading and sync outcome, two combinations of write results
UpNets == NetCases(ClockReadings, CoarseWrites)

NextUp ==
    \/ manualTriggerCallback
    \/ LoopPoll(MaxRuns)
    \/ SamplingBegin
    \/ SampleRead(CoarseReads)
    \/ SamplingEnd
    \/ processData({HeapOk})
    \/ uploadData(UpNets)

SpecUp == InitUp /\ [][NextUp]_vars

\* data of every length up to MaxLen over a zero and a non-zero sample
FiltData == UNION {[1..n -> {0, 1}] : n \in 0..MaxLen}

\* <<cutoffHz, sampleRateHz>>: the default (cutoff at Nyquist), cutoffs inside the band,
\* just above 0, at 0, and a sample rate of 0
FiltDesigns ==
    {<<DEFAULT_FILTER_CUTOFF_HZ, DEFAULT_SAMPLE_RATE_HZ>>, <<800, DEFAULT_SAMPLE_RATE_HZ>>,
     <<10, DEFAULT_SAMPLE_RATE_HZ>>, <<0, DEFAULT_SAMPLE_RATE_HZ>>,
     <<DEFAULT_FILTER_CUTOFF_HZ, 0>>}

InitFilt == InitWith({BootMillis}, {ConfigOf(1, "token", FALSE)}, NoFail)

NextFilt ==
    \/ CallDesignButterworth(FiltDesigns)
    \/ CallApplyFilter(FiltData)
    \/ CallApplyFiltFilt(FiltData)

SpecFilt == InitFilt /\ [][NextFilt]_vars

\* sample rates from 100 Hz to the sensor's highest output data rate
SampleRates == 100..DEFAULT_SAMPLE_RATE_HZ

NextIval == CallSampleIntervals(SampleRates, 0..MaxSamples)

InitIval == InitWith({BootMillis}, {ConfigOf(1, "token", FALSE)}, NoFail)

SpecIval == InitIval /\ [][NextIval]_vars

InitWifi == InitWith({BootMillis}, {ConfigOf(1, "token", FALSE)}, NoFail)

NextWifi ==
    \/ connectStation({"", "plant"})
    \/ startAP
    \/ ConnectWait
    \/ handleConnection(BOOLEAN)
    \/ manualTriggerCallback
    \/ LoopPoll(MaxAcq)
    \/ SamplingBegin
    \/ SampleRead(CoarseReads)
    \/ SamplingEnd
    \/ processData({HeapOk})
    \/ uploadData(GoodNet)

SpecWifi == InitWifi /\ [][NextWifi]_vars

\* device configurations: network and server set or not, three passwords and tokens
DevConfigs ==
    [wifi_ssid : {"", "plant"}, wifi_password : {"", "pw1", "pw2"},
     influx_url : {"http://192.168.1.100:8086"}, influx_token : {"", "tok1", "tok2"},
     influx_org : {"org"}, operation_id : {"L9OP600", "L9OP700"},
     sample_count : {1}, send_time_domain : BOOLEAN]

InitJson == InitWith({BootMillis}, {ConfigOf(1, "token", FALSE)}, NoFail)

NextJson == CallGenerateConfigJson(DevConfigs)

SpecJson == InitJson /\ [][NextJson]_vars

\* real times at which the loop is entered: far from a wrap of the microsecond
\* counter, shortly before a wrap, and just after it
TimingStarts ==
    {BootMillis * 1000 - CounterMod, 0 - 1000, 0 - 500, 0 - 100, 0 - 1, 5}

\* a read shorter than the interval and one longer than it
ReadDurations == {20, 400}

InitTime == InitWith({BootMillis}, {ConfigOf(1, "token", FALSE)}, NoFail)

NextTime ==
    \/ TimingBegin(TimingStarts, {DEFAULT_SAMPLE_RATE_HZ, 1000}, 1..(MaxSamples + 1))
    \/ BusyWait
    \/ TimedRead(ReadDurations)
    \/ TimingEnd

SpecTime == InitTime /\ [][NextTime]_vars

\* every value of the uint8_t order
FilterOrders == 0..255

NextSect ==
    \/ CallDesignOrder(FilterOrders)
    \/ CallApplyFilter(FiltData)

SpecSect == InitFilt /\ [][NextSect]_vars

InitFft == InitWith({BootMillis}, {ConfigOf(1, "token", FALSE)}, NoFail)

NextFft == CallComputeFFT(0..MaxFftInput)

SpecFft == InitFft /\ [][NextFft]_vars

\* bodies of POST /api/config with sample counts and sensitivities in and out of range
\* (a uint16_t and a uint8_t)
ConfRequests ==
    {[sensitivity |-> v, sample_count |-> c,
      sample_rate_hz |-> DEFAULT_SAMPLE_RATE_HZ,
      filter_cutoff_hz |-> DEFAULT_FILTER_CUTOFF_HZ] :
        v \in {0, MAX_SENSITIVITY, MAX_SENSITIVITY + 1, 255},
        c \in {0, 1, MAX_SAMPLE_COUNT - 1, MAX_SAMPLE_COUNT, MAX_SAMPLE_COUNT + 1, 65535}}

NextConf ==
    \/ handlePostConfig(ConfRequests, MaxPosts + 1)
    \/ handleReset(MaxPosts + 1)
    \/ espRestart(NoFail)

InitConf == InitWith({BootMillis}, {ConfigOf(1, "token", FALSE)}, NoFail)

SpecConf == InitConf /\ [][NextConf]_vars

InitPow == InitWith({BootMillis}, {ConfigOf(1, "token", FALSE)}, NoFail)

NextPow == CallNextPowerOf2(0..MAX_SAMPLE_COUNT)

SpecPow == InitPow /\ [][NextPow]_vars

\* every combination of write results, one clock reading
ResNets == NetCases({Reading(TRUE, MinValidEpochSec, 1)}, AllWrites)

NextRes ==
    \/ manualTriggerCallback
    \/ LoopPoll(MaxRuns)
    \/ SamplingBegin
    \/ SampleRead(CoarseReads)
    \/ SamplingEnd
    \/ processData({HeapOk})
    \/ uploadData(ResNets)

SpecRes == InitUp /\ [][NextRes]_vars

InitCfg == InitWith({BootMillis}, {ConfigOf(1, "token", FALSE)}, NoFail)

\* bodies of POST /api/config: every sample count, and the default sampling setup or
\* half its rate and cutoff
CfgRequests ==
    {[sensitivity |-> ADXL313_RANGE_2G, sample_count |-> c,
      sample_rate_hz |-> DEFAULT_SAMPLE_RATE_HZ \div h,
      filter_cutoff_hz |-> DEFAULT_FILTER_CUTOFF_HZ \div h] : c \in 0..MaxSamples, h \in 1..2}

NextCfg ==
    \/ manualTriggerCallback
    \/ LoopPoll(MaxAcq + 1)
    \/ SamplingBegin
    \/ SampleRead(CoarseReads)
    \/ SamplingEnd
    \/ processData({HeapOk})
    \/ uploadData(GoodNet)
    \/ handlePostConfig(CfgRequests, MaxPosts)
    \/ espRestart(NoFail)

SpecCfg == InitCfg /\ [][NextCfg]_vars

\* numbers of bins or samples around the batch boundaries
WriteCounts ==
    {0, 1, 2} \cup {k * INFLUX_WRITE_BATCH_SIZE + d : k \in 1..MaxBatches, d \in 0..2}

\* base timestamps of a run: early in a second, and in its last nanosecond
WriteBases == {Ts(MinValidEpochSec, 1000), Ts(MinValidEpochSec, NsPerSec - 1)}

\* answers to a POST: no connection, and codes around the 2xx range
HttpCodes == {-1, 199, 200, 299, 300, 500}

InitWrite == InitWith({BootMillis}, {ConfigOf(1, "token", FALSE)}, NoFail)

NextWrite ==
    \/ writeFrequencyData(WriteCounts, WriteBases)
    \/ writeTimeData(WriteCounts, {Ts(MinValidEpochSec, 0)})
    \/ WritePoint
    \/ WriteTail
    \/ SendAttempt(HttpCodes)
    \/ SendReturn

SpecWrite == InitWrite /\ [][NextWrite]_vars

\* timestamps handed to writePoint: 0, nanoseconds alone, and whole seconds with
\* nanosecond parts of every number of digits
PointNanos ==
    {0, 1, 5, 9} \cup {10 ^ k : k \in 1..8} \cup {10 ^ k - 1 : k \in 2..9}
    \cup {5 * (10 ^ k) : k \in 1..8}
PointStamps == {Ts(sec, n) : sec \in {0, 1, MinValidEpochSec}, n \in PointNanos}

NextPoint ==
    \/ writePoint(PointStamps)
    \/ SendAttempt({200, 500})
    \/ SendReturn

SpecPoint == InitWrite /\ [][NextPoint]_vars

\* _sendLineProtocol runs to its return: every POST returns within the HTTP timeout
\* and every delay ends (influxdb_client.cpp:74-96)
FairSpecWrite == SpecWrite /\ WF_vars(SendAttempt(HttpCodes))

(***************************************************************************)
(* Properties                                                              *)
(***************************************************************************)
EpochNs(usec) == Ts(MinValidEpochSec, usec * NsPerUsec)

\* C1: the base timestamp issued to a run is strictly greater than the base timestamp
\* issued to every earlier run, whatever the epoch clock reads (repeated, decreasing).
C1_RunTimestampsIncrease ==
    \A i, j \in 1..Len(hist.issued) :
        i < j => TsLess(hist.issued[i], hist.issued[j])

\* three runs, the second reading equal to the first and the third below it
C1_Witness ==
    /\ Len(hist.issued) = 3
    /\ hist.candidates = <<EpochNs(1), EpochNs(1), EpochNs(0)>>

\* C2: the issued base timestamp is the candidate when the candidate is strictly greater
\* than the last issued timestamp and last issued + 1 otherwise, and the last issued
\* timestamp is then the issued value.
C2_IssuedIsCandidateOrLastPlusOne ==
    /\ Len(hist.issued) = Len(hist.candidates)
    /\ \A k \in 1..Len(hist.issued) :
          LET last == IF k = 1 THEN TsZero ELSE hist.issued[k - 1]
              cand == hist.candidates[k]
          IN hist.issued[k] = IF TsLess(last, cand) THEN cand ELSE TsAdd(last, 1)
    /\ lastUploadTimestampNs =
          IF hist.issued = <<>> THEN TsZero ELSE hist.issued[Len(hist.issued)]

\* the spec's example [100, 100, 50, 200] -> [100, 101, 102, 200], in microsecond readings
C2_Witness ==
    /\ hist.candidates = <<EpochNs(1), EpochNs(1), EpochNs(0), EpochNs(2)>>
    /\ hist.issued = <<EpochNs(1), TsAdd(EpochNs(1), 1), TsAdd(EpochNs(1), 2), EpochNs(2)>>

\* C3: a trigger observed while a cycle is Sampling, Processing or Uploading is dropped:
\* no cycle is started by triggers that were all observed while a cycle was running.
C3_BusyTriggerStartsNoCycle == ~hist.busyStart

\* C4: at most one measurement cycle is active at any time; Sampling begins only from
\* Idle, and the phases of a cycle run in the order Sampling, Processing, Uploading.
PhaseSteps ==
    {<<"idle", "sampling">>, <<"sampling", "sample_loop">>, <<"sample_loop", "processing">>,
     <<"processing", "uploading">>, <<"uploading", "idle">>,
     <<"sampling", "crashed">>, <<"sample_loop", "crashed">>, <<"processing", "crashed">>}

C4_Step ==
    /\ pc' # pc => <<pc, pc'>> \in PhaseSteps
    /\ hist'.cyclesStarted - hist'.cyclesEnded
          = (IF pc' \in {"sampling", "sample_loop", "processing", "uploading"} THEN 1
             ELSE IF pc' = "idle" THEN 0
             ELSE hist.cyclesStarted - hist.cyclesEnded)
    /\ hist'.cyclesStarted # hist.cyclesStarted => hist.cyclesStarted = hist.cyclesEnded

C4_OneActiveCycleInOrder == [][C4_Step]_vars

\* a trigger is pending while the second cycle is processing
C4_Witness == hist.cyclesStarted = 2 /\ pc = "processing" /\ triggerPending

\* C5: two accepted hardware edges are more than 100 ms apart, and an edge arriving
\* 100 ms or less after the last accepted edge changes neither the pending flag nor the
\* last-trigger timestamp.
C5_Step ==
    /\ hist'.hwGapOk
    /\ (plcTriggerISR /\ hist.hwAcceptedAt # -1 /\ clock - hist.hwAcceptedAt <= DebounceMs)
          => UNCHANGED trigVars

C5_AcceptedEdgesDebounced == [][C5_Step]_vars

\* two edges were accepted and one was rejected inside the window
C5_Witness == hist.hwStage = 3

\* C6: a trigger accepted while Idle stays pending until a poll consumes it; the flag is
\* cleared only by a poll, and a poll that finds it set starts exactly one cycle.
C6_Step ==
    /\ hist'.idleTrig => triggerPending'
    /\ (triggerPending /\ ~triggerPending')
          => /\ pc = "idle" /\ pc' = "sampling"
             /\ hist'.cyclesStarted = hist.cyclesStarted + 1
    /\ hist'.cyclesStarted # hist.cyclesStarted
          => /\ triggerPending /\ ~triggerPending'
             /\ hist'.cyclesStarted = hist.cyclesStarted + 1

C6_NoIdleTriggerLost == [][C6_Step]_vars

\* two triggers accepted while Idle were taken by one poll, which started the first cycle
C6_Witness ==
    /\ hist.multi /\ hist.cyclesStarted = 1
    /\ pc = "sampling" /\ ~triggerPending

\* C7: the trigger timestamp reported to the status sink for a cycle is the timestamp of
\* the trigger that was consumed to start that cycle.
C7_ReportedTimestampIsConsumed ==
    hist.reports > 0 => wsLastTriggerTime = hist.consumedTs

\* C8: every cycle that starts reports its outcome to the status sink exactly once before
\* the orchestrator returns to Idle.
C8_EveryCycleReportsOnce ==
    (pc = "idle" /\ hist.cyclesEnded > 0) => hist.reports = 1

\* C9: acquisition performs exactly currentSampleCount reads and no read outcome ends the
\* loop early; slot i of the three axis buffers holds the values of the i-th read if it
\* succeeded and zero if it failed.
SlotHolds(i, o) ==
    IF o.ok
    THEN bufferX[i] = o.x /\ bufferY[i] = o.y /\ bufferZ[i] = o.z
    ELSE bufferX[i] = 0 /\ bufferY[i] = 0 /\ bufferZ[i] = 0

ReadsStored ==
    /\ pc = "sample_loop"
          => /\ Len(hist.reads) = idx
             /\ idx <= currentSampleCount
             /\ \A i \in 1..idx : SlotHolds(i, hist.reads[i])
    /\ pc = "processing"
          => /\ Len(hist.reads) = currentSampleCount
             /\ \A i \in 1..currentSampleCount : SlotHolds(i, hist.reads[i])

C9_Step ==
    /\ ReadsStored'
    /\ pc = "sample_loop" => pc' \in {"sample_loop", "processing"}
    /\ (pc = "sample_loop" /\ pc' = "processing") => idx = currentSampleCount

C9_AcquisitionStoresEveryRead == [][C9_Step]_vars

\* every read of an acquisition of two samples failed
C9_Witness ==
    /\ pc = "processing" /\ currentSampleCount = 2
    /\ hist.reads = <<ReadFail, ReadFail>>
    /\ bufferX = <<0, 0>> /\ bufferY = <<0, 0>> /\ bufferZ = <<0, 0>>

BetweenReads == pc = "sample_loop" /\ 0 < idx /\ idx < currentSampleCount

\* C10 as stated: radio power-save is off in every state between the first and the last
\* sensor read of an acquisition.
C10_PowerSaveOffBetweenReads == BetweenReads => wifiSleep = FALSE

\* C10 amended: radio power-save (modem sleep) is on in every state between the first
\* and the last sensor read of an acquisition.
C10_PowerSaveOnBetweenReads == BetweenReads => wifiSleep = TRUE

\* between the reads of an acquisition that was entered with power-save off
C10_Witness == BetweenReads /\ ~hist.sleepAtEntry /\ wifiSleep

\* C11: after acquisition returns, the power-save setting equals the setting that was in
\* force immediately before the acquisition started.
C11_PowerSaveRestored == pc = "processing" => wifiSleep = hist.sleepAtEntry

\* C12: buffer allocation is all-or-nothing: either all seven buffers are held with the
\* lengths of the requested sample count, which is the recorded count, or none of a
\* partially allocated set is left behind whose length disagrees with the recorded count.
TimeBufs == <<bufferX, bufferY, bufferZ>>
FreqBufs == <<freqBins, fftX, fftY, fftZ>>
NumBinsOf(count) == (nextPowerOf2(count) \div 2) + 1

AllHeldFor(count) ==
    /\ nullBufs = {}
    /\ currentSampleCount = count
    /\ \A k \in 1..3 : Len(TimeBufs[k]) = count
    /\ \A k \in 1..4 : Len(FreqBufs[k]) = NumBinsOf(count)

HeldAgreeWithCount ==
    /\ \A k \in 1..3 :
          <<"bufferX", "bufferY", "bufferZ">>[k] \notin nullBufs
             => Len(TimeBufs[k]) = currentSampleCount
    /\ \A k \in 1..4 :
          <<"freqBins", "fftX", "fftY", "fftZ">>[k] \notin nullBufs
             => Len(FreqBufs[k]) = NumBinsOf(currentSampleCount)

C12_AllocationAllOrNothing ==
    \/ AllHeldFor(cfg.sample_count)
    \/ nullBufs = BufNames
    \/ HeldAgreeWithCount

\* C13: a cycle that follows a failed buffer allocation performs no sampling, processing
\* or upload on the buffers: it never gets past the Processing phase, nor ends the process.
C13_FailedAllocationSkipsCycle ==
    nullBufs # {} => pc \notin {"uploading", "crashed"}

\* C14: on entering Sampling the sample count used for the cycle and the lengths of the
\* held buffers equal the current configuration's sample_count.
C14_Step ==
    (pc = "sampling" /\ pc' = "sample_loop")
       => /\ currentSampleCount' = cfg'.sample_count
          /\ \A k \in 1..3 : Len(TimeBufs[k]') = cfg'.sample_count
          /\ \A k \in 1..4 : Len(FreqBufs[k]') = NumBinsOf(cfg'.sample_count)

C14_BuffersMatchConfigOnEntry == [][C14_Step]_vars

\* the points bins 1..n-1 stand for, in ascending order
FreqPoints(n) == [k \in 1..(IF n > 0 THEN n - 1 ELSE 0) |-> k]

\* the points samples 0..n-1 stand for, in ascending order
TimePoints(n) == [k \in 1..n |-> k - 1]

PointSeq(fn, n) == IF fn = "freq" THEN FreqPoints(n) ELSE TimePoints(n)

IsPrefix(s, t) == Len(s) <= Len(t) /\ \A k \in 1..Len(s) : s[k] = t[k]

Is2xx(httpCode) == httpCode \in 200..299

RECURSIVE SumSeq(_)
SumSeq(s) == IF s = <<>> THEN 0 ELSE Head(s) + SumSeq(Tail(s))

\* C15: a successful writeFrequencyData over numBins bins has delivered exactly the
\* points of bins 1..numBins-1, ascending, each once; no point of bin 0 is ever
\* batched or delivered; for numBins of 0 or 1 it sends nothing and returns success.
C15_FrequencyPointsSkipDc ==
    influx.fn = "freq" =>
        /\ \A k \in DOMAIN influx.batch : influx.batch[k] # 0
        /\ \A k \in DOMAIN influx.delivered : influx.delivered[k] # 0
        /\ influx.pc = "returned" =>
              /\ influx.result => influx.delivered = FreqPoints(influx.n)
              /\ influx.n <= 1 => influx.result /\ influx.sends = 0

C15_Witness ==
    /\ influx.pc = "returned" /\ influx.fn = "freq" /\ influx.result
    /\ influx.n = INFLUX_WRITE_BATCH_SIZE + 2
    /\ influx.batches = <<INFLUX_WRITE_BATCH_SIZE, 1>>

\* C16: every batch handed to the sender, and every batch the server accepted, holds
\* at least 1 and at most INFLUX_WRITE_BATCH_SIZE points, for both writes.
C16_BatchSizeBounded ==
    /\ influx.pc \in {"send", "send_done"} =>
          Len(influx.batch) \in 1..INFLUX_WRITE_BATCH_SIZE
    /\ \A k \in DOMAIN influx.batches : influx.batches[k] \in 1..INFLUX_WRITE_BATCH_SIZE

C16_Witness ==
    /\ influx.pc = "returned"
    /\ influx.batches = <<INFLUX_WRITE_BATCH_SIZE, INFLUX_WRITE_BATCH_SIZE, 1>>

\* C17: the delivered points are always a prefix of the write's point sequence; a
\* failed send is followed by the return of failure with no further send and no
\* further delivery; a write that returned failure delivered whole batches only.
C17_Step ==
    /\ IsPrefix(influx'.delivered, PointSeq(influx'.fn, influx'.n))
    /\ (influx.pc = "send_done" /\ ~influx.sendOk) =>
          /\ influx'.pc = "returned" /\ ~influx'.result
          /\ influx'.sends = influx.sends
          /\ influx'.delivered = influx.delivered
    /\ (influx'.pc = "returned" /\ ~influx'.result) =>
          /\ \A k \in DOMAIN influx'.batches :
                influx'.batches[k] = INFLUX_WRITE_BATCH_SIZE
          /\ Len(influx'.delivered) = INFLUX_WRITE_BATCH_SIZE * Len(influx'.batches)

C17_FailedBatchAbortsWrite == [][C17_Step]_vars

C17_Witness ==
    /\ influx.pc = "returned" /\ ~influx.result /\ influx.configured
    /\ influx.n > 2 * INFLUX_WRITE_BATCH_SIZE
    /\ Len(influx.delivered) = INFLUX_WRITE_BATCH_SIZE

\* C18: a send makes at most INFLUX_RETRY_COUNT POSTs, none after a 2xx answer;
\* it returns success iff some POST was answered 2xx, and on a configured client
\* failure only after INFLUX_RETRY_COUNT failed POSTs; every step that stays in the
\* send uses up one attempt, and a send that was entered returns.
C18_Step ==
    /\ Len(influx'.posts) <= INFLUX_RETRY_COUNT
    /\ \A k \in 1..(Len(influx'.posts) - 1) : ~Is2xx(influx'.posts[k])
    /\ influx'.pc = "send_done" =>
          /\ influx'.sendOk <=> \E k \in DOMAIN influx'.posts : Is2xx(influx'.posts[k])
          /\ (influx'.configured /\ ~influx'.sendOk) =>
                Len(influx'.posts) = INFLUX_RETRY_COUNT
    /\ (influx.pc = "send" /\ influx'.pc = "send") =>
          /\ influx'.attempt = influx.attempt + 1
          /\ Len(influx'.posts) = influx'.attempt

C18_SendRetriesBounded ==
    /\ [][C18_Step]_vars
    /\ (influx.pc = "send") ~> (influx.pc = "send_done")

C18_Witness ==
    /\ influx.pc = "send_done" /\ ~influx.sendOk /\ influx.configured
    /\ Len(influx.posts) = INFLUX_RETRY_COUNT

\* C19: the delay after failed attempt k (from 0) is 100 ms * 2^k, and a send that
\* succeeds on its third attempt has waited at least 300 ms.
C19_ExponentialBackoff ==
    /\ \A k \in DOMAIN influx.delays : influx.delays[k] = 100 * (2 ^ (k - 1))
    /\ Len(influx.delays) = Len(influx.posts) - (IF influx.pc = "send_done" /\ influx.sendOk THEN 1 ELSE 0)
    /\ (influx.pc = "send_done" /\ influx.sendOk /\ Len(influx.posts) = 3) =>
          SumSeq(influx.delays) >= 300

C19_Witness ==
    /\ influx.pc = "send_done" /\ influx.sendOk
    /\ Len(influx.posts) = 3 /\ SumSeq(influx.delays) = 300

\* C20: in a cycle whose upload reaches the writes, the writes made are metadata,
\* frequency data, and time-domain data exactly when send_time_domain is set, whatever
\* the earlier ones returned, and the flag reported is true iff all of them succeeded.
C20_SuccessIsAndOfAttemptedWrites ==
    hist.writes # <<>> =>
        /\ [k \in DOMAIN hist.writes |-> hist.writes[k].name]
             = (IF cfg.send_time_domain THEN <<"meta", "freq", "time">>
                ELSE <<"meta", "freq">>)
        /\ wsLastInfluxOk <=> (\A k \in DOMAIN hist.writes : hist.writes[k].ok)

C20_Witness ==
    /\ Len(hist.writes) = 3
    /\ ~hist.writes[1].ok /\ hist.writes[2].ok /\ ~hist.writes[3].ok
    /\ ~wsLastInfluxOk

\* the clock gives the run no timestamp: unsynchronized with the sync failing, or
\* the reading fails or lies before the validity threshold
ClockInvalid(n) ==
    \/ ~n.validTime /\ ~n.syncOk
    \/ ~n.reading.ok
    \/ n.reading.sec < MinValidEpochSec

\* C21: an upload that gets to the time check and finds the clock unsynchronized with
\* the sync failing, or the clock reading rejected, makes no write, reports the cycle
\* to the status sink as failed, and leaves runSequence and lastUploadTimestampNs.
C21_Step ==
    (/\ pc = "uploading" /\ pc' = "idle"
     /\ isInfluxConfigured
     /\ hist'.upNet[1].connected
     /\ ClockInvalid(hist'.upNet[1])) =>
        /\ hist'.writes = <<>>
        /\ hist'.reports = hist.reports + 1
        /\ ~wsLastInfluxOk'
        /\ wsLastSampleCount' = currentSampleCount
        /\ runSequence' = runSequence
        /\ lastUploadTimestampNs' = lastUploadTimestampNs
        /\ hist'.issued = hist.issued

C21_ClockInvalidSkipsUpload == [][C21_Step]_vars

\* a cycle after a successful run ends on a rejected clock reading
C21_Witness ==
    /\ pc = "idle" /\ hist.cyclesEnded >= 2
    /\ hist.upNet # <<>> /\ hist.upNet[1].connected /\ hist.upNet[1].validTime
    /\ hist.upNet[1].reading.ok /\ hist.upNet[1].reading.sec < MinValidEpochSec
    /\ isInfluxConfigured
    /\ runSequence = 1 /\ Len(hist.issued) = 1 /\ ~wsLastInfluxOk

IsPowerOfTwo(x) == \E k \in 0..30 : x = 2 ^ k

\* C22: for every sampleCount in 1..MAX_SAMPLE_COUNT, nextPowerOf2(sampleCount) is a
\* power of two, at least sampleCount and less than twice sampleCount.
C22_NextPowerOf2Tight ==
    (calc.fn = "nextPowerOf2" /\ calc.in[1] \in 1..MAX_SAMPLE_COUNT) =>
        /\ IsPowerOfTwo(calc.out[1])
        /\ calc.out[1] >= calc.in[1]
        /\ calc.out[1] < 2 * calc.in[1]

C22_Witness ==
    calc.fn = "nextPowerOf2" /\ calc.in[1] = MAX_SAMPLE_COUNT /\ calc.out[1] = 8192

AllZero(data) == \A i \in DOMAIN data : data[i] = 0

\* C23: applyFiltFilt on an all-zero input of any length leaves the data all zero,
\* whatever coefficients were designed and whatever state earlier calls left.
C23_ZeroInputStaysZero ==
    (calc.fn = "applyFiltFilt" /\ AllZero(calc.in[1])) =>
        /\ Len(calc.out[1]) = Len(calc.in[1])
        /\ AllZero(calc.out[1])

\* C24: at every call of applyFilter, direct or as the forward or backward pass of
\* applyFiltFilt, the state of every section is zero.
C24_StateZeroAtEveryPass ==
    calc.fn \in {"applyFilter", "applyFiltFilt"} =>
        \A k \in DOMAIN calc.in[2] : calc.in[2][k] = ZeroState

\* the normalized cutoff put into the range 0.01..0.99
ClampedCutoff(wn) ==
    IF wn[2] = 0 THEN (IF wn[1] > 0 THEN <<99, 100>> ELSE wn)
    ELSE IF 100 * wn[1] > 99 * wn[2] THEN <<99, 100>>
    ELSE IF 100 * wn[1] < wn[2] THEN <<1, 100>>
    ELSE wn

FracEq(a, b) == a[1] * b[2] = b[1] * a[2] /\ (a[2] = 0 <=> b[2] = 0)

\* C25: the coefficients of designButterworth are computed from cutoff / Nyquist put
\* into the range 0.01..0.99.
C25_CoefficientsFromClampedCutoff ==
    calc.fn = "designButterworth" =>
        FracEq(calc.out[1], ClampedCutoff(<<2 * calc.in[1], calc.in[2]>>))

\* C26: the timestamp offset of time-domain point i is i times the interval that
\* acquisition scheduled between samples at the same sample rate.
C26_PointOffsetIsScheduledTime ==
    calc.fn = "sampleInterval" => calc.out[1] = NsPerUsec * calc.out[2]

AllSame(s) == \A i, j \in DOMAIN s : s[i] = s[j]

\* C27: the sample rate and the filter cutoff that Sampling, Processing and Uploading
\* of one cycle read are the same values.
C27_ConfigIsSnapshotForCycle == AllSame(hist.rates) /\ AllSame(hist.cutoffs)

\* C28: the WiFi manager leaves CONNECTING for AP_MODE exactly when WIFI_RETRY_COUNT
\* attempts have timed out since connecting was started, never after fewer, and never
\* stays in CONNECTING with that many; a connection loss in CONNECTED_STATION starts
\* connecting with the count at zero.
C28_Step ==
    /\ (wifi.state = "CONNECTING" /\ wifi'.state = "AP_MODE") =>
          wifi'.timeouts = WIFI_RETRY_COUNT
    /\ wifi'.state = "CONNECTING" => wifi'.timeouts < WIFI_RETRY_COUNT
    /\ wifi'.state \in {"CONNECTING", "CONNECTED_STATION"} =>
          wifi'.connectAttempts = wifi'.timeouts
    /\ (wifi.state = "CONNECTED_STATION" /\ wifi'.state = "CONNECTING") =>
          wifi'.connectAttempts = 0

C28_ApFallbackAfterRetries == [][C28_Step]_vars

\* fallback on the second connecting, after a connection that was lost
C28_Witness ==
    wifi.state = "AP_MODE" /\ wifi.timeouts = WIFI_RETRY_COUNT /\ wifi.links = 2

Secrets == {"wifi_password", "influx_token"}

\* the two configurations agree on every field that is not a secret
SameButSecrets(c1, c2) == \A f \in (DOMAIN c1) \ Secrets : c1[f] = c2[f]

\* C29: the responses of GET /api/config for two configurations that differ only in
\* the WiFi password and the InfluxDB token are identical, and both fields are empty
\* in every response.
C29_ConfigResponseHidesSecrets ==
    calc.fn = "generateConfigJson" =>
        /\ SameButSecrets(calc.in[1], calc.in[2]) => calc.out[1] = calc.out[2]
        /\ \A r \in 1..2 : \A k \in DOMAIN calc.out[r] :
              calc.out[r][k][1] \in Secrets => calc.out[r][k][2] = ""

C29_Witness ==
    /\ calc.fn = "generateConfigJson"
    /\ SameButSecrets(calc.in[1], calc.in[2])
    /\ calc.in[1].wifi_password = "pw1" /\ calc.in[2].wifi_password = "pw2"
    /\ calc.in[1].influx_token = "tok1" /\ calc.in[2].influx_token = "tok2"
    /\ calc.out[1] = calc.out[2]

\* C30: sample i is read no earlier than t0 + i * interval, and the deadlines held
\* in nextSampleTime are one interval apart, wherever the loop starts on the
\* microsecond counter.
C30_ReadNotBeforeDeadline ==
    /\ \A k \in DOMAIN acq.readAt : acq.readAt[k] >= acq.t0 + (k - 1) * acq.interval
    /\ acq.pc # "idle" =>
          acq.nextSampleTime = micros(acq.t0 + acq.i * acq.interval)

\* C31: every frequency point a cycle uploads was computed by that cycle's spectrum
\* computation from that cycle's (filtered) samples; no value that is left over from
\* an earlier cycle or was never written is uploaded, also when processing failed.
FreshBin(spectrum, buf, i) ==
    /\ i + 1 \in DOMAIN spectrum
    /\ spectrum[i + 1].kind = "mag"
    /\ spectrum[i + 1].bin = i
    /\ spectrum[i + 1].src = SubSeq(buf, 1, currentSampleCount)

C31_Step ==
    (pc = "uploading" /\ hist'.writes # <<>> /\ nullBufs = {})
       => \A i \in 0..(NumBinsOf(currentSampleCount) - 1) :
             pointEmitted("freq", i)
                => /\ FreshBin(fftX, bufferX, i)
                   /\ FreshBin(fftY, bufferY, i)
                   /\ FreshBin(fftZ, bufferZ, i)

C31_UploadedSpectrumIsFresh == [][C31_Step]_vars

\* C32: run identifiers are pairwise distinct within a process lifetime: the sequence
\* number is k for the k-th timestamped run and is left alone by cycles that skip the
\* upload, so no two runs share <deviceId>-<epochSeconds>-<sequence>.
C32_RunIdsDistinct ==
    /\ runSequence = Len(hist.seqs)
    /\ \A k \in DOMAIN hist.seqs : hist.seqs[k] = k
    /\ \A j, k \in DOMAIN hist.runIds : j # k => hist.runIds[j] # hist.runIds[k]

\* two runs stamped within the same second with a skipped upload between them
C32_Witness ==
    /\ Len(hist.runIds) >= 2
    /\ hist.issued[1].s = hist.issued[2].s
    /\ hist.cyclesEnded = 3
    /\ hist.upNet # <<>> /\ ~hist.upNet[1].connected
    /\ hist.runIds[2] = DeviceId \o <<"-">> \o Decimal(MinValidEpochSec) \o <<"-", "2">>

\* C33: for every order in 0..255 designButterworth sets the number of sections to
\* min(ceil(order/2), 2), so every section index applyFilter uses lies inside the
\* coefficient and state arrays (capacity 2).
C33_SectionsWithinCapacity ==
    hist.dspCalls > 0 =>
       LET half == (hist.order \div 2) + (hist.order % 2)
       IN /\ dsp.numSections = (IF half < 2 THEN half ELSE 2)
          /\ \A sec \in 0..(dsp.numSections - 1) :
                /\ sec < 2
                /\ sec + 1 \in DOMAIN dsp.sos
                /\ sec + 1 \in DOMAIN dsp.state

\* the largest order designed and a filter pass made with it
C33_Witness ==
    /\ hist.order = 255
    /\ dsp.numSections = 2
    /\ calc.fn = "applyFilter"
    /\ Len(calc.in[1]) > 0

\* C34: in the magnitude spectrum of numBins = fftSize/2 + 1 bins, bin 0 and bin
\* numBins - 1 are scaled by 1/fftSize and every other bin by 2/fftSize, for every input
\* length, also 0 and 1 where the first bin is the last one.
BinFactor(b) == <<b.scale[1], b.scale[2] * (2 ^ b.halved)>>

C34_SpectrumScaling ==
    calc.fn = "computeFFT" =>
       LET fftSize == nextPowerOf2(calc.in[1])
           numBins == (fftSize \div 2) + 1
           out == calc.out[1]
       IN /\ Len(out) = numBins
          /\ \A i \in 0..(numBins - 1) :
                FracEq(BinFactor(out[i + 1]),
                       IF i = 0 \/ i = numBins - 1 THEN <<1, fftSize>> ELSE <<2, fftSize>>)

\* one sample: fftSize 1, a single bin that is both the first and the last
C34_Witness ==
    /\ calc.fn = "computeFFT"
    /\ calc.in[1] = 1
    /\ Len(calc.out[1]) = 1
    /\ calc.out[1][1].halved = 1

\* C35: the frequency point of bin i carries base + i * 1,000,000 ns, so within a run
\* each emitted frequency point is stamped later than the one emitted before it and
\* all are later than the base timestamp.
C35_Step ==
    (influx.fn = "freq" /\ Len(influx'.stamps) = Len(influx.stamps) + 1)
       => LET t == influx'.stamps[Len(influx'.stamps)]
              ns == influx.base.n + (influx.i % 1000) * 1000000
          IN /\ t.s = influx.base.s + (influx.i \div 1000) + (ns \div NsPerSec)
             /\ t.n = ns % NsPerSec
             /\ TsLess(influx.base, t)
             /\ Len(influx.stamps) > 0 => TsLess(influx.stamps[Len(influx.stamps)], t)

C35_FrequencyTimestampsAscend == [][C35_Step]_vars

\* a run based in the last nanosecond of a second whose points the server accepted:
\* bin 1 is stamped in the next second, bin 1001 two seconds after the base
C35_Witness ==
    /\ influx.fn = "freq"
    /\ influx.pc = "returned" /\ influx.result
    /\ influx.base = Ts(MinValidEpochSec, NsPerSec - 1)
    /\ Len(influx.stamps) = 2 * INFLUX_WRITE_BATCH_SIZE + 1
    /\ influx.stamps[1] = Ts(MinValidEpochSec + 1, 999999)
    /\ influx.stamps[1001] = Ts(MinValidEpochSec + 2, 999999)

\* C36: writePoint encodes its timestamp losslessly: for timestampNs > 0 the timestamp
\* token of the line, read as a decimal number, is timestampNs; for 0 the line has no
\* timestamp token.
RECURSIVE ReadDecimal(_)
ReadDecimal(token) ==
    IF Len(token) > 1 /\ token[1] = "0" THEN ReadDecimal(Tail(token)) ELSE token

\* the decimal digits of the 64-bit value s * 10^9 + n
DecimalNs(ts) ==
    IF ts.s = 0 THEN Decimal(ts.n)
    ELSE LET low == Decimal(ts.n)
         IN Decimal(ts.s) \o [k \in 1..(9 - Len(low)) |-> "0"] \o low

C36_TimestampTokenLossless ==
    influx.fn = "point" =>
       IF TsLess(TsZero, influx.base)
       THEN /\ Len(influx.line) = 3
            /\ ReadDecimal(influx.line[3]) = DecimalNs(influx.base)
       ELSE Len(influx.line) = 2

BufferNamed(name) ==
    CASE name = "bufferX" -> bufferX [] name = "bufferY" -> bufferY
      [] name = "bufferZ" -> bufferZ [] name = "freqBins" -> freqBins
      [] name = "fftX" -> fftX [] name = "fftY" -> fftY [] name = "fftZ" -> fftZ

C39_HardwareEdgeOutsideWindowAccepted ==
    (hist.hwEdge.seen /\ hist.hwEdge.outside) => hist.hwEdge.accepted

\* C40: the trigger count of the status API is the number of measurement cycles that
\* were started: whenever the device is back in Idle it has grown by one for every
\* cycle, whatever the cycle's outcome.
C40_TriggerCountIsCycleCount ==
    pc = "idle" => wsTriggerCount = hist.cyclesStarted

TypeOK ==
    /\ triggerPending \in BOOLEAN
    /\ lastTriggerTime \in 0..(CounterMod - 1)
    /\ pc \in {"idle", "sampling", "sample_loop", "processing", "uploading", "crashed"}
    /\ idx \in 0..currentSampleCount
    /\ wifiSleep \in BOOLEAN

====
